---- MODULE Spec2Model ----
(***************************************************************************)
(* flashtask-api: the indexing webhooks (POST /api/index/task,             *)
(* POST /api/index/organization), the search endpoint (POST /api/search)   *)
(* and the mapping summary cache of src/unnamed/part_000, and the webhooks *)
(* POST /api/index of the two servers of src/index.js, over an             *)
(* Elasticsearch-like store with the indices 'tasks', 'organizations',     *)
(* 'teams' and 'orgmembers'.                                               *)
(*                                                                         *)
(* JavaScript objects are functions from the keys they own to values.  A   *)
(* key whose value is the JavaScript undefined carries Undefined; sending  *)
(* an object to the store serialises it as JSON, which drops such keys.    *)
(* A plain string held in an array (a member identifier of a team) is      *)
(* Str(s); every scalar field is a string.                                 *)
(***************************************************************************)
EXTENDS Integers, Sequences, FiniteSets, TLC

VARIABLES
    tasksIdx,             \* index 'tasks' as the store holds it: id -> _source
    orgsIdx,              \* index 'organizations' as the store holds it
    tasksSeen,            \* the part of 'tasks' the last refresh made searchable
    orgsSeen,             \* the part of 'organizations' the last refresh made searchable
    schema,               \* the store's mappings, index -> field tree
    mappingSummaryCache,  \* let mappingSummaryCache
    clock,                \* Date.now()
    deletedTasks,         \* history: task ids whose last event was answered deleted
    extraIdx,             \* indices 'teams' and 'orgmembers' (written by POST /api/index)
    req                   \* the requests being handled, one per slot

vars == <<tasksIdx, orgsIdx, tasksSeen, orgsSeen, schema, mappingSummaryCache, clock,
          deletedTasks, extraIdx, req>>

(***************************************************************************)
(* Bounds.                                                                 *)
(***************************************************************************)
MaxClock == 1        \* Date.now() takes the values 0..MaxClock
MaxMembers == 3      \* a stored members or teams array grows to at most this length

Slots == {"r1", "r2"}   \* requests handled at the same time

(***************************************************************************)
(* JavaScript values.                                                      *)
(***************************************************************************)
Undefined == "<undefined>"
EmptyObj == [k \in {} |-> Undefined]
Str(s) == [str |-> s]
IsString(v) == DOMAIN v = {"str"}

\* obj.k, undefined when obj has no key k
Get(obj, k) == IF k \in DOMAIN obj THEN obj[k] ELSE Undefined

\* truthiness of obj.k for a string-valued key (undefined and '' are falsy)
TruthyStr(obj, k) == k \in DOMAIN obj /\ obj[k] # Undefined /\ obj[k] # ""

\* truthiness of obj.k for an array- or object-valued key (every array is truthy)
TruthyObj(obj, k) == k \in DOMAIN obj

\* { ...a, ...b }
Spread(a, b) ==
    [k \in DOMAIN a \cup DOMAIN b |-> IF k \in DOMAIN b THEN b[k] ELSE a[k]]

\* keys of obj that hold a string
StrKeys == {"$id", "name", "email", "role", "slug", "description", "docType",
            "createdAt", "$createdAt", "$updatedAt", "title", "category", "status",
            "priority", "dueDate", "userEmail", "assignee", "invites",
            "organizationId", "orgId", "parentOrgId"}

\* JSON.stringify of a flat object: keys holding undefined are dropped
JsonFlat(obj) ==
    LET keep == {k \in DOMAIN obj : ~(k \in StrKeys /\ obj[k] = Undefined)}
    IN  [k \in keep |-> obj[k]]

\* JSON.stringify of an array of flat objects
JsonArr(arr) == [i \in 1..Len(arr) |-> JsonFlat(arr[i])]

\* JSON.stringify of an organization document: nested members and teams too
JsonOrg(obj) ==
    LET flat == JsonFlat(obj)
    IN  [k \in DOMAIN flat |->
            IF k \in {"members", "teams"} THEN JsonArr(flat[k]) ELSE flat[k]]

\* a || b on string values
OrElse(a, b) == IF a # Undefined /\ a # "" THEN a ELSE b

\* a findIndex that never finds
FindIndexNever(arr, id) == 0

\* Array.prototype.findIndex((m) => m && m.$id === id); 0 stands for -1
FindIndex(arr, id) ==
    LET hits == {i \in 1..Len(arr) : Get(arr[i], "$id") = id}
    IN  IF hits = {} THEN 0 ELSE CHOOSE i \in hits : \A j \in hits : i <= j

\* `mem_${Date.now()}` and `team_${Date.now()}`
MemId(now) == "mem_" \o ToString(now)
TeamId(now) == "team_" \o ToString(now)

(***************************************************************************)
(* Event descriptors.  String(event).includes('delete') is decided on the  *)
(* descriptors the webhooks are sent with.                                 *)
(***************************************************************************)
Events == {"", "databases.documents.update", "databases.documents.delete"}
IncludesDelete(event) == event = "databases.documents.delete"

\* event && String(event).includes('delete')
IsDeleteEvent(event) == event # "" /\ IncludesDelete(event)

(***************************************************************************)
(* Responses and request slots.                                            *)
(***************************************************************************)
NoResp == [status |-> 0, ok |-> FALSE, action |-> "", error |-> "", id |-> ""]
Ok(action, id) == [status |-> 200, ok |-> TRUE, action |-> action, error |-> "", id |-> id]
Err(status, error) == [status |-> status, ok |-> FALSE, action |-> "", error |-> error, id |-> ""]

IdleReq ==
    [endpoint |-> "none", pc |-> "idle", event |-> "", doc |-> EmptyObj,
     id |-> "", body |-> EmptyObj, action |-> "", existing |-> <<>>, stored |-> <<>>,
     calls |-> {}, explicit |-> Undefined, query |-> "", userEmail |-> "", debug |-> FALSE,
     loaded |-> <<>>, pending |-> {},
     filter |-> EmptyObj, results |-> {}, unfiltered |-> {}, resp |-> NoResp]

Free(r) == req[r].pc \in {"idle", "done"}

Respond(r, cur, resp) == req' = [req EXCEPT ![r] = [cur EXCEPT !.pc = "done", !.resp = resp]]

(***************************************************************************)
(* The store.  get reads the index as written (real time); search reads   *)
(* what the last refresh made visible.  Any call may fail.                 *)
(***************************************************************************)
EsGet(idx, id) == IF id \in DOMAIN idx THEN <<idx[id]>> ELSE <<>>

\* esClient.index: the document under id is replaced wholesale
EsIndex(idx, id, source) == [k \in DOMAIN idx \cup {id} |-> IF k = id THEN source ELSE idx[k]]

\* esClient.delete
EsDelete(idx, id) == [k \in DOMAIN idx \ {id} |-> idx[k]]

(***************************************************************************)
(* POST /api/index/organization                                            *)
(***************************************************************************)
\* document.$id || document.organizationId || document.orgId
OrgDeleteId(document) ==
    OrElse(Get(document, "$id"), OrElse(Get(document, "organizationId"), Get(document, "orgId")))

\* document.$id && (document.members || document.teams || document.name)
IsFullOrganization(document) ==
    /\ TruthyStr(document, "$id")
    /\ \/ TruthyObj(document, "members")
       \/ TruthyObj(document, "teams")
       \/ TruthyStr(document, "name")

\* OrgBody without the defaults of members and teams
OrgBodyNoDefaults(document) ==
    LET keys == {"docType", "name", "slug", "description", "createdAt"}
                  \cup ({"members", "teams"} \cap DOMAIN document)
    IN  [k \in keys |->
            CASE k = "docType" -> "organizations"
              [] k \in {"members", "teams"} -> document[k]
              [] k = "createdAt" -> OrElse(Get(document, "createdAt"), Get(document, "$createdAt"))
              [] OTHER -> Get(document, k)]

\* the body of the full organization upsert
OrgBody(document) ==
    [docType |-> "organizations",
     name |-> Get(document, "name"),
     slug |-> Get(document, "slug"),
     description |-> Get(document, "description"),
     members |-> IF TruthyObj(document, "members") THEN document["members"] ELSE <<>>,
     teams |-> IF TruthyObj(document, "teams") THEN document["teams"] ELSE <<>>,
     createdAt |-> OrElse(Get(document, "createdAt"), Get(document, "$createdAt"))]

\* document.organizationId || document.orgId || (document.org && document.org.$id) || document.parentOrgId
ParentOrgId(document) ==
    OrElse(Get(document, "organizationId"),
      OrElse(Get(document, "orgId"),
        OrElse(IF "org" \in DOMAIN document THEN Get(document["org"], "$id") ELSE Undefined,
               Get(document, "parentOrgId"))))

OrgShell ==
    [docType |-> "organizations", members |-> <<>>, teams |-> <<>>,
     name |-> "", slug |-> "", description |-> ""]

\* existing && existing._source ? existing._source : shell
OrgDocOf(existing) == IF existing # <<>> THEN existing[1] ELSE OrgShell

IsMemberPayload(document) == TruthyStr(document, "email") \/ TruthyStr(document, "role")
IsTeamPayload(document) == TruthyStr(document, "name") /\ "members" \in DOMAIN document

\* find by $id: replace by { ...old, ...child }, else push
UpsertChild(arr, child) ==
    LET existsIdx == FindIndex(arr, child["$id"])
    IN  IF existsIdx >= 1
        THEN [arr EXCEPT ![existsIdx] = Spread(arr[existsIdx], child)]
        ELSE Append(arr, child)

MergeMember(orgDoc, document, now) ==
    IF IsMemberPayload(document)
    THEN LET member == [name |-> Get(document, "name"),
                        email |-> Get(document, "email"),
                        role |-> Get(document, "role")]
                       @@ ("$id" :> OrElse(Get(document, "$id"), MemId(now)))
             members == IF TruthyObj(orgDoc, "members") THEN orgDoc["members"] ELSE <<>>
         IN  Spread(orgDoc, [members |-> UpsertChild(members, member)])
    ELSE orgDoc

MergeTeam(orgDoc, document, now) ==
    IF IsTeamPayload(document)
    THEN LET team == [name |-> document["name"],
                      members |-> document["members"]]
                     @@ ("$id" :> OrElse(Get(document, "$id"), TeamId(now)))
             teams == IF TruthyObj(orgDoc, "teams") THEN orgDoc["teams"] ELSE <<>>
         IN  Spread(orgDoc, [teams |-> UpsertChild(teams, team)])
    ELSE orgDoc

\* the aggregate the merge path writes back
MergeChild(existing, document, now) ==
    Spread(MergeTeam(MergeMember(OrgDocOf(existing), document, now), document, now),
           [docType |-> "organizations"])

Truthy(v) == v # Undefined /\ v # ""

Begin(endpoint, event, body) ==
    [IdleReq EXCEPT !.endpoint = endpoint, !.event = event,
                    !.doc = IF body = <<>> THEN EmptyObj ELSE body[1]]

\* lines 135-172: up to the first store call.  body is <<>> when the request
\* carries no document, else <<document>>.
OrgRequest(r, event, body) ==
    /\ Free(r)
    /\ LET cur == Begin("organization", event, body)
           document == cur.doc
       IN  IF body = <<>>
           THEN Respond(r, cur, Err(400, "missing_document"))
           ELSE IF IsDeleteEvent(event) /\ Truthy(OrgDeleteId(document))
           THEN req' = [req EXCEPT ![r] =
                    [cur EXCEPT !.pc = "delete", !.id = OrgDeleteId(document)]]
           ELSE IF IsFullOrganization(document)
           THEN req' = [req EXCEPT ![r] =
                    [cur EXCEPT !.pc = "index", !.id = document["$id"],
                                !.body = OrgBody(document), !.action = "upserted"]]
           ELSE IF ~Truthy(ParentOrgId(document))
           THEN Respond(r, cur, Err(400, "missing_parent_org_id"))
           ELSE req' = [req EXCEPT ![r] =
                    [cur EXCEPT !.pc = "get", !.id = ParentOrgId(document)]]
    /\ UNCHANGED <<tasksIdx, orgsIdx, tasksSeen, orgsSeen, schema, mappingSummaryCache, clock, deletedTasks, extraIdx>>

\* lines 146-147: await esClient.delete(...).catch(() => {}); answered deleted
OrgDelete(r, ok) ==
    /\ req[r].endpoint = "organization" /\ req[r].pc = "delete"
    /\ orgsIdx' = IF ok THEN EsDelete(orgsIdx, req[r].id) ELSE orgsIdx
    /\ Respond(r, [req[r] EXCEPT !.calls = @ \cup {"delete"}], Ok("deleted", req[r].id))
    /\ UNCHANGED <<tasksIdx, tasksSeen, orgsSeen, schema, mappingSummaryCache, clock, deletedTasks, extraIdx>>

\* lines 174-196: await esClient.get(...).catch(() => null), then the merge in memory
OrgGet(r, ok) ==
    /\ req[r].endpoint = "organization" /\ req[r].pc = "get"
    /\ LET existing == IF ok THEN EsGet(orgsIdx, req[r].id) ELSE <<>>
           orgDoc == MergeChild(existing, req[r].doc, clock)
       IN  /\ \A k \in {"members", "teams"} \cap DOMAIN orgDoc : Len(orgDoc[k]) <= MaxMembers
           /\ req' = [req EXCEPT ![r] =
                  [@ EXCEPT !.pc = "index", !.existing = existing,
                            !.stored = EsGet(orgsIdx, req[r].id),
                            !.body = orgDoc, !.action = "merged_into_organization",
                            !.calls = @ \cup {"get"}]]
    /\ UNCHANGED <<tasksIdx, orgsIdx, tasksSeen, orgsSeen, schema, mappingSummaryCache, clock, deletedTasks, extraIdx>>

\* OrgIndex with the merge redone on the aggregate stored at the time of the write
OrgIndexAtomic(r, ok) ==
    /\ req[r].endpoint = "organization" /\ req[r].pc = "index"
    /\ LET cur == [req[r] EXCEPT !.calls = @ \cup {"index"}]
           source == IF cur.action = "merged_into_organization"
                     THEN MergeChild(EsGet(orgsIdx, cur.id), cur.doc, clock)
                     ELSE cur.body
       IN  IF ok
           THEN /\ orgsIdx' = EsIndex(orgsIdx, cur.id, JsonOrg(source))
                /\ req' = [req EXCEPT ![r] = [cur EXCEPT !.pc = "refresh"]]
           ELSE /\ orgsIdx' = orgsIdx
                /\ Respond(r, cur, Err(500, "index_failed"))
    /\ UNCHANGED <<tasksIdx, tasksSeen, orgsSeen, schema, mappingSummaryCache, clock, deletedTasks, extraIdx>>

\* lines 163 and 197: await esClient.index(...); a failure reaches the catch block
OrgIndex(r, ok) ==
    /\ req[r].endpoint = "organization" /\ req[r].pc = "index"
    /\ LET cur == [req[r] EXCEPT !.calls = @ \cup {"index"}]
       IN  IF ok
           THEN /\ orgsIdx' = EsIndex(orgsIdx, cur.id, JsonOrg(cur.body))
                /\ req' = [req EXCEPT ![r] = [cur EXCEPT !.pc = "refresh"]]
           ELSE /\ orgsIdx' = orgsIdx
                /\ Respond(r, cur, Err(500, "index_failed"))
    /\ UNCHANGED <<tasksIdx, tasksSeen, orgsSeen, schema, mappingSummaryCache, clock, deletedTasks, extraIdx>>

\* OrgRefresh whose failure reaches the catch block of the handler
OrgRefreshOrFail(r, ok) ==
    /\ req[r].endpoint = "organization" /\ req[r].pc = "refresh"
    /\ orgsSeen' = IF ok THEN orgsIdx ELSE orgsSeen
    /\ Respond(r, [req[r] EXCEPT !.calls = @ \cup {"refresh"}],
               IF ok THEN Ok(req[r].action, req[r].id) ELSE Err(500, "index_failed"))
    /\ UNCHANGED <<tasksIdx, orgsIdx, tasksSeen, schema, mappingSummaryCache, clock, deletedTasks, extraIdx>>

\* lines 164-165 and 198-199: await esClient.indices.refresh(...).catch(() => {})
OrgRefresh(r, ok) ==
    /\ req[r].endpoint = "organization" /\ req[r].pc = "refresh"
    /\ orgsSeen' = IF ok THEN orgsIdx ELSE orgsSeen
    /\ Respond(r, [req[r] EXCEPT !.calls = @ \cup {"refresh"}], Ok(req[r].action, req[r].id))
    /\ UNCHANGED <<tasksIdx, orgsIdx, tasksSeen, schema, mappingSummaryCache, clock, deletedTasks, extraIdx>>

(***************************************************************************)
(* POST /api/index/task                                                    *)
(***************************************************************************)
TaskFields == {"title", "description", "category", "status", "priority", "dueDate",
               "userEmail", "$createdAt", "$updatedAt", "assignee", "invites"}

\* lines 108-121: the projection of the payload
TaskBody(document) ==
    [k \in TaskFields \cup {"docType"} |->
        IF k = "docType" THEN "tasks" ELSE Get(document, k)]

\* lines 94-123
TaskRequest(r, event, body) ==
    /\ Free(r)
    /\ LET cur == Begin("task", event, body)
           document == cur.doc
       IN  IF ~TruthyStr(document, "$id")
           THEN Respond(r, cur, Err(400, "missing_document"))
           ELSE IF IsDeleteEvent(event)
           THEN req' = [req EXCEPT ![r] = [cur EXCEPT !.pc = "delete", !.id = document["$id"]]]
           ELSE req' = [req EXCEPT ![r] =
                    [cur EXCEPT !.pc = "index", !.id = document["$id"],
                                !.body = TaskBody(document), !.action = "upserted"]]
    /\ deletedTasks' = IF body # <<>> /\ TruthyStr(body[1], "$id") /\ ~IsDeleteEvent(event)
                       THEN deletedTasks \ {body[1]["$id"]} ELSE deletedTasks
    /\ UNCHANGED <<tasksIdx, orgsIdx, tasksSeen, orgsSeen, schema, mappingSummaryCache, clock, extraIdx>>

\* lines 104-105
TaskDelete(r, ok) ==
    /\ req[r].endpoint = "task" /\ req[r].pc = "delete"
    /\ tasksIdx' = IF ok THEN EsDelete(tasksIdx, req[r].id) ELSE tasksIdx
    /\ Respond(r, [req[r] EXCEPT !.calls = @ \cup {"delete"}], Ok("deleted", req[r].id))
    /\ deletedTasks' = deletedTasks \cup {req[r].id}
    /\ UNCHANGED <<orgsIdx, tasksSeen, orgsSeen, schema, mappingSummaryCache, clock, extraIdx>>

\* TaskIndex as a partial update (esClient.update with doc): the fields sent are
\* set, the other fields of the stored version stay
TaskIndexUpdate(r, ok) ==
    /\ req[r].endpoint = "task" /\ req[r].pc = "index"
    /\ LET cur == [req[r] EXCEPT !.calls = @ \cup {"index"},
                                 !.stored = EsGet(tasksIdx, req[r].id)]
           old == IF cur.id \in DOMAIN tasksIdx THEN tasksIdx[cur.id] ELSE EmptyObj
       IN  IF ok
           THEN /\ tasksIdx' = EsIndex(tasksIdx, cur.id, Spread(old, JsonFlat(cur.body)))
                /\ req' = [req EXCEPT ![r] = [cur EXCEPT !.pc = "refresh"]]
           ELSE /\ tasksIdx' = tasksIdx
                /\ Respond(r, cur, Err(500, "index_failed"))
    /\ UNCHANGED <<orgsIdx, tasksSeen, orgsSeen, schema, mappingSummaryCache, clock, deletedTasks, extraIdx>>

\* line 124
TaskIndex(r, ok) ==
    /\ req[r].endpoint = "task" /\ req[r].pc = "index"
    /\ LET cur == [req[r] EXCEPT !.calls = @ \cup {"index"},
                                 !.stored = EsGet(tasksIdx, req[r].id)]
       IN  IF ok
           THEN /\ tasksIdx' = EsIndex(tasksIdx, cur.id, JsonFlat(cur.body))
                /\ req' = [req EXCEPT ![r] = [cur EXCEPT !.pc = "refresh"]]
           ELSE /\ tasksIdx' = tasksIdx
                /\ Respond(r, cur, Err(500, "index_failed"))
    /\ UNCHANGED <<orgsIdx, tasksSeen, orgsSeen, schema, mappingSummaryCache, clock, deletedTasks, extraIdx>>

\* lines 125-126
TaskRefresh(r, ok) ==
    /\ req[r].endpoint = "task" /\ req[r].pc = "refresh"
    /\ tasksSeen' = IF ok THEN tasksIdx ELSE tasksSeen
    /\ Respond(r, [req[r] EXCEPT !.calls = @ \cup {"refresh"}], Ok(req[r].action, req[r].id))
    /\ UNCHANGED <<tasksIdx, orgsIdx, orgsSeen, schema, mappingSummaryCache, clock, deletedTasks, extraIdx>>

(***************************************************************************)
(* The environment: time passes, and the store refreshes on its own        *)
(* (index.refresh_interval).                                               *)
(***************************************************************************)
Tick ==
    /\ clock < MaxClock
    /\ clock' = clock + 1
    /\ UNCHANGED <<tasksIdx, orgsIdx, tasksSeen, orgsSeen, schema, mappingSummaryCache, req, deletedTasks, extraIdx>>

StoreRefresh ==
    /\ tasksSeen' = tasksIdx
    /\ orgsSeen' = orgsIdx
    /\ UNCHANGED <<tasksIdx, orgsIdx, schema, mappingSummaryCache, clock, req, deletedTasks, extraIdx>>

(***************************************************************************)
(* The mapping summary (lines 40-81).                                      *)
(***************************************************************************)
INDICES == <<"tasks", "organizations">>

fieldsToCheck == {"userEmail", "email", "members.email", "name", "title", "description"}

\* path.split('.')
Split(path) ==
    CASE path = "members.email" -> <<"members", "email">>
      [] path = "members.name" -> <<"members", "name">>
      [] path = "teams.name" -> <<"teams", "name">>
      [] OTHER -> <<path>>

\* the walk of lines 54-60: <<cur>> at the end of the path, <<>> for return false
RECURSIVE WalkMapping(_, _)
WalkMapping(cur, parts) ==
    IF parts = <<>> THEN <<cur>>
    ELSE IF Head(parts) \notin DOMAIN cur THEN <<>>
    ELSE LET next == cur[Head(parts)]
         IN  IF "properties" \in DOMAIN next
             THEN WalkMapping(next["properties"], Tail(parts))
             ELSE WalkMapping(next, Tail(parts))

\* lines 49-65; mapping is raw[idx] || raw
hasKeywordSubfield(mapping, path) ==
    LET top == IF "mappings" \in DOMAIN mapping /\ "properties" \in DOMAIN mapping["mappings"]
               THEN mapping["mappings"]["properties"] ELSE mapping
        end == WalkMapping(top, Split(path))
    IN  IF end = <<>> THEN FALSE
        ELSE \/ ("type" \in DOMAIN end[1] /\ end[1]["type"] = "keyword")
             \/ ("fields" \in DOMAIN end[1] /\ "keyword" \in DOMAIN end[1]["fields"])

\* lines 67-73, from the answer raw of indices.getMapping ({} when it failed)
SummaryOf(raw) ==
    [idx \in {INDICES[i] : i \in 1..Len(INDICES)} |->
        [f \in fieldsToCheck |->
            hasKeywordSubfield(IF idx \in DOMAIN raw THEN raw[idx] ELSE raw, f)]]

\* lines 46-81: what the cache holds after loadMappingSummary
loadMappingSummary(ok) == SummaryOf(IF ok THEN schema ELSE EmptyObj)

(***************************************************************************)
(* The store's schemas and text analysis.                                  *)
(***************************************************************************)
TextDef == [type |-> "text"]
TextKeywordDef == [type |-> "text", fields |-> [keyword |-> [type |-> "keyword"]]]
KeywordDef == [type |-> "keyword"]

SchemaWith(def) ==
    [tasks |-> [mappings |-> [properties |-> [userEmail |-> def, title |-> TextKeywordDef]]],
     organizations |-> [mappings |-> [properties |->
         [name |-> TextKeywordDef,
          members |-> [properties |-> [email |-> def, name |-> TextKeywordDef]]]]]]

Schemas == {SchemaWith(TextKeywordDef), SchemaWith(TextDef), SchemaWith(KeywordDef)}

\* the definition of a field in the schema of an index, <<>> when it is not mapped
FieldDef(idx, path) == WalkMapping(schema[idx]["mappings"]["properties"], Split(path))

\* the standard analyzer: the lower-cased words of s in order; '@' separates
\* words, '.' inside a word does not
Words(s) ==
    CASE s = "a@x.com" -> <<"a", "x.com">>
      [] s = "b@x.com" -> <<"b", "x.com">>
      [] s = "c@y.org" -> <<"c", "y.org">>
      [] s = "Design review" -> <<"design", "review">>
      [] s = "Design doc" -> <<"design", "doc">>
      [] s = "Acme" -> <<"acme">>
      [] s = "Core" -> <<"core">>
      [] s = "Ops" -> <<"ops">>
      [] s = "Ann" -> <<"ann">>
      [] s = "Bob" -> <<"bob">>
      [] s = "Cy" -> <<"cy">>
      [] s = " d " -> <<"d">>
      [] OTHER -> IF s = "" \/ s = Undefined THEN <<>> ELSE <<s>>

Analyze(s) == {Words(s)[i] : i \in 1..Len(Words(s))}

\* q is a prefix of the word tok
IsPrefix(q, tok) ==
    \/ q = tok
    \/ <<q, tok>> \in {<<"desi", "design">>, <<"d", "design">>, <<"d", "doc">>,
                       <<"d", "desi">>, <<"ac", "acme">>, <<"a", "acme">>,
                       <<"a", "ac">>, <<"a", "ann">>, <<"b", "bob">>,
                       <<"c", "core">>, <<"c", "cy">>, <<"x", "x.com">>}

\* the values a document holds under a field path (arrays of objects are flattened)
ValuesAt(source, path) ==
    LET parts == Split(path)
    IN  IF Len(parts) = 1
        THEN IF TruthyStr(source, path) THEN {source[path]} ELSE {}
        ELSE IF parts[1] \in DOMAIN source
             THEN {source[parts[1]][i][parts[2]] :
                     i \in {j \in 1..Len(source[parts[1]]) :
                              TruthyStr(source[parts[1]][j], parts[2])}}
             ELSE {}

\* the terms the store indexed for a field of a document
IndexedTerms(idx, source, path) ==
    LET def == FieldDef(idx, path)
    IN  IF def # <<>> /\ def[1]["type"] = "keyword"
        THEN ValuesAt(source, path)
        ELSE UNION {Analyze(v) : v \in ValuesAt(source, path)}

\* { term: { [path + '.keyword']: value } }: the keyword sub-field must exist
TermKeywordHits(idx, source, path, value) ==
    LET def == FieldDef(idx, path)
    IN  /\ def # <<>>
        /\ "fields" \in DOMAIN def[1]
        /\ "keyword" \in DOMAIN def[1]["fields"]
        /\ value \in ValuesAt(source, path)

\* { match: { [path]: value } }: any analysed word of value is a term of the field
MatchHits(idx, source, path, value) ==
    LET def == FieldDef(idx, path)
    IN  /\ def # <<>>
        /\ IF def[1]["type"] = "keyword"
           THEN value \in ValuesAt(source, path)
           ELSE Analyze(value) \cap IndexedTerms(idx, source, path) # {}

(***************************************************************************)
(* POST /api/search                                                        *)
(***************************************************************************)
fieldsToSearch == {"title", "description", "category", "assignee", "invites", "name",
                   "slug", "members.name", "members.email", "teams.name", "email"}

sourceFields == {"docType", "title", "description", "category", "status", "priority",
                 "dueDate", "userEmail", "$createdAt", "$updatedAt", "name", "slug",
                 "members", "teams", "email"}

\* String(query).trim()
Trim(query) == IF query = " d " THEN "d" ELSE query

\* multi_match of type bool_prefix with operator or: a word of the query is a term
\* of one of the fields, the last word as a prefix
TextHits(idx, source, query) ==
    LET w == Words(query)
    IN  \E f \in fieldsToSearch : \E t \in IndexedTerms(idx, source, f) :
          \E i \in 1..Len(w) : IF i = Len(w) THEN IsPrefix(w[i], t) ELSE w[i] = t

\* termOrMatch deciding on the presence of the summary entry, not on its value
termOrMatchAnyEntry(m, fieldBase, idx) ==
    IF idx \in DOMAIN m /\ fieldBase \in DOMAIN m[idx] THEN "term" ELSE "match"

\* lines 242-246: the kind of clause termOrMatch returns
termOrMatch(m, fieldBase, idx) ==
    IF idx \in DOMAIN m /\ fieldBase \in DOMAIN m[idx] /\ m[idx][fieldBase]
    THEN "term" ELSE "match"

\* lines 250-274: the clause kinds of the two branches of userFilters
userFilters(m) ==
    [tasks |-> termOrMatch(m, "userEmail", "tasks"),
     organizations |-> termOrMatch(m, "members.email", "organizations")]

\* the scoping field of an index
ScopeField(idx) == IF idx = "tasks" THEN "userEmail" ELSE "members.email"

\* one branch of userFilters: { term: { _index } } and the termOrMatch clause
FilterHits(filter, idx, source, userEmail) ==
    IF filter[idx] = "term"
    THEN TermKeywordHits(idx, source, ScopeField(idx), userEmail)
    ELSE MatchHits(idx, source, ScopeField(idx), userEmail)

Hit(idx, id, source) ==
    [index |-> idx, id |-> id,
     source |-> [k \in DOMAIN source \cap sourceFields |-> source[k]]]

Seen(idx) == IF idx = "tasks" THEN tasksSeen ELSE orgsSeen

\* esClient.search(esQuery): must multi_match, filter userFilters (filtered), or
\* filter [] (the unfiltered query of the debug mode)
EsSearch(query, userEmail, filter, filtered) ==
    UNION {{Hit(idx, id, Seen(idx)[id]) :
              id \in {d \in DOMAIN Seen(idx) :
                        /\ TextHits(idx, Seen(idx)[d], query)
                        /\ filtered => FilterHits(filter, idx, Seen(idx)[d], userEmail)}} :
           idx \in {"tasks", "organizations"}}

\* SearchRequest without the lazy load
SearchRequestNoLoad(r, query, userEmail, debug) ==
    /\ Free(r)
    /\ LET cur == [IdleReq EXCEPT !.endpoint = "search", !.query = query,
                                  !.userEmail = userEmail, !.debug = debug]
       IN  IF ~Truthy(userEmail)
           THEN Respond(r, cur, Err(400, "userEmail required"))
           ELSE IF ~Truthy(query) \/ Len(Trim(query)) < 2
           THEN Respond(r, cur, Ok("", ""))
           ELSE req' = [req EXCEPT ![r] =
                    [cur EXCEPT !.pc = "search", !.filter = userFilters(mappingSummaryCache)]]
    /\ UNCHANGED <<tasksIdx, orgsIdx, tasksSeen, orgsSeen, schema, mappingSummaryCache, clock, deletedTasks, extraIdx>>

\* SearchRequest with the lazy load placed before the short-query return
SearchRequestLoadFirst(r, query, userEmail, debug) ==
    /\ Free(r)
    /\ LET cur == [IdleReq EXCEPT !.endpoint = "search", !.query = query,
                                  !.userEmail = userEmail, !.debug = debug]
       IN  IF ~Truthy(userEmail)
           THEN Respond(r, cur, Err(400, "userEmail required"))
           ELSE IF mappingSummaryCache = EmptyObj
           THEN req' = [req EXCEPT ![r] = [cur EXCEPT !.pc = "load"]]
           ELSE IF ~Truthy(query) \/ Len(Trim(query)) < 2
           THEN Respond(r, cur, Ok("", ""))
           ELSE req' = [req EXCEPT ![r] =
                    [cur EXCEPT !.pc = "search", !.filter = userFilters(mappingSummaryCache)]]
    /\ UNCHANGED <<tasksIdx, orgsIdx, tasksSeen, orgsSeen, schema, mappingSummaryCache, clock, deletedTasks, extraIdx>>

\* SearchRequest with the short-query return placed before the identity check
SearchRequestQueryFirst(r, query, userEmail, debug) ==
    /\ Free(r)
    /\ LET cur == [IdleReq EXCEPT !.endpoint = "search", !.query = query,
                                  !.userEmail = userEmail, !.debug = debug]
       IN  IF ~Truthy(query) \/ Len(Trim(query)) < 2
           THEN Respond(r, cur, Ok("", ""))
           ELSE IF ~Truthy(userEmail)
           THEN Respond(r, cur, Err(400, "userEmail required"))
           ELSE IF mappingSummaryCache = EmptyObj
           THEN req' = [req EXCEPT ![r] = [cur EXCEPT !.pc = "load"]]
           ELSE req' = [req EXCEPT ![r] =
                    [cur EXCEPT !.pc = "search", !.filter = userFilters(mappingSummaryCache)]]
    /\ UNCHANGED <<tasksIdx, orgsIdx, tasksSeen, orgsSeen, schema, mappingSummaryCache, clock, deletedTasks, extraIdx>>

\* lines 207-238: validation and the lazy load
SearchRequest(r, query, userEmail, debug) ==
    /\ Free(r)
    /\ LET cur == [IdleReq EXCEPT !.endpoint = "search", !.query = query,
                                  !.userEmail = userEmail, !.debug = debug]
       IN  IF ~Truthy(userEmail)
           THEN Respond(r, cur, Err(400, "userEmail required"))
           ELSE IF ~Truthy(query) \/ Len(Trim(query)) < 2
           THEN Respond(r, cur, Ok("", ""))
           ELSE IF mappingSummaryCache = EmptyObj
           THEN req' = [req EXCEPT ![r] = [cur EXCEPT !.pc = "load"]]
           ELSE req' = [req EXCEPT ![r] =
                    [cur EXCEPT !.pc = "search", !.filter = userFilters(mappingSummaryCache)]]
    /\ UNCHANGED <<tasksIdx, orgsIdx, tasksSeen, orgsSeen, schema, mappingSummaryCache, clock, deletedTasks, extraIdx>>

\* SearchLoad answering with an error when the schema query fails
SearchLoadOrFail(r, ok) ==
    /\ req[r].endpoint = "search" /\ req[r].pc = "load"
    /\ IF ok
       THEN /\ mappingSummaryCache' = loadMappingSummary(ok)
            /\ req' = [req EXCEPT ![r] =
                   [@ EXCEPT !.pc = "resume", !.loaded = <<loadMappingSummary(ok)>>,
                             !.calls = @ \cup {"getMapping"}]]
       ELSE /\ mappingSummaryCache' = mappingSummaryCache
            /\ Respond(r, [req[r] EXCEPT !.calls = @ \cup {"getMapping"}],
                       Err(500, "search_failed"))
    /\ UNCHANGED <<tasksIdx, orgsIdx, tasksSeen, orgsSeen, schema, clock, deletedTasks, extraIdx>>

\* SearchLoad that assigns the cache only while it is still empty: the first
\* load to finish wins
SearchLoadIfEmpty(r, ok) ==
    /\ req[r].endpoint = "search" /\ req[r].pc = "load"
    /\ mappingSummaryCache' = IF mappingSummaryCache = EmptyObj
                              THEN loadMappingSummary(ok) ELSE mappingSummaryCache
    /\ req' = [req EXCEPT ![r] =
           [@ EXCEPT !.pc = "resume", !.loaded = <<mappingSummaryCache'>>,
                     !.calls = @ \cup {"getMapping"}]]
    /\ UNCHANGED <<tasksIdx, orgsIdx, tasksSeen, orgsSeen, schema, clock, deletedTasks, extraIdx>>

\* lines 46-81, called on line 237: the schema query of the request's own load
\* settles, its continuation assigns the cache (line 74) and returns the summary
\* (line 75); the handler waiting on line 237 is resumed in a later turn
SearchLoad(r, ok) ==
    /\ req[r].endpoint = "search" /\ req[r].pc = "load"
    /\ mappingSummaryCache' = loadMappingSummary(ok)
    /\ req' = [req EXCEPT ![r] =
           [@ EXCEPT !.pc = "resume", !.loaded = <<loadMappingSummary(ok)>>,
                     !.calls = @ \cup {"getMapping"}]]
    /\ UNCHANGED <<tasksIdx, orgsIdx, tasksSeen, orgsSeen, schema, clock, deletedTasks, extraIdx>>

\* lines 240-297: the handler resumes after the await of line 237, reads the
\* cache as it is now (line 240) and builds the query; the value the load
\* returned is dropped
SearchBuild(r) ==
    /\ req[r].endpoint = "search" /\ req[r].pc = "resume"
    /\ req' = [req EXCEPT ![r] =
           [@ EXCEPT !.pc = "search", !.loaded = <<>>,
                     !.filter = userFilters(mappingSummaryCache)]]
    /\ UNCHANGED <<tasksIdx, orgsIdx, tasksSeen, orgsSeen, schema, mappingSummaryCache, clock, deletedTasks, extraIdx>>

\* lines 301-302 and 327-336
SearchCall(r, ok) ==
    /\ req[r].endpoint = "search" /\ req[r].pc = "search"
    /\ LET cur == [req[r] EXCEPT !.calls = @ \cup {"search"}]
           hits == EsSearch(cur.query, cur.userEmail, cur.filter, TRUE)
       IN  IF ~ok
           THEN Respond(r, cur, Err(500, "search_failed"))
           ELSE IF cur.debug
           THEN req' = [req EXCEPT ![r] = [cur EXCEPT !.pc = "unfiltered", !.results = hits]]
           ELSE Respond(r, [cur EXCEPT !.results = hits], Ok("", ""))
    /\ UNCHANGED <<tasksIdx, orgsIdx, tasksSeen, orgsSeen, schema, mappingSummaryCache, clock, deletedTasks, extraIdx>>

\* lines 310-325: the unfiltered search of the debug mode
SearchUnfiltered(r, ok) ==
    /\ req[r].endpoint = "search" /\ req[r].pc = "unfiltered"
    /\ IF ~ok
       THEN Respond(r, [req[r] EXCEPT !.results = {}], Err(500, "search_failed"))
       ELSE Respond(r, [req[r] EXCEPT !.unfiltered =
                           EsSearch(req[r].query, req[r].userEmail, req[r].filter, FALSE)],
                    Ok("", ""))
    /\ UNCHANGED <<tasksIdx, orgsIdx, tasksSeen, orgsSeen, schema, mappingSummaryCache, clock, deletedTasks, extraIdx>>

\* line 370: the load started when the process starts; lines 349-351: the load
\* asked for by GET /api/mappings?refresh=true
LoadMappings(ok) ==
    /\ mappingSummaryCache' = loadMappingSummary(ok)
    /\ UNCHANGED <<tasksIdx, orgsIdx, tasksSeen, orgsSeen, schema, clock, req, deletedTasks, extraIdx>>

(***************************************************************************)
(* POST /api/index (src/index.js): one webhook for the four kinds of       *)
(* document, which it tells apart with detectDocType.                      *)
(***************************************************************************)
\* an event descriptor that names its database and collection
eventOfCollection == "databases.flashtask.collections.organizations.documents.update"

\* explicit.toLowerCase(), on the hints the requests carry
toLowerCase(str) ==
    CASE str = "Tasks" -> "tasks"
      [] str = "OrgMembers" -> "orgmembers"
      [] OTHER -> str

\* low.includes(sub), on the lower-cased hints the requests carry
includes(low, sub) ==
    <<low, sub>> \in
        {<<"tasks", "task">>,
         <<"orgmembers", "org">>, <<"orgmembers", "member">>,
         <<"organizations", "org">>, <<"organizations", "organization">>,
         <<"teams", "team">>,
         <<"org_teams", "org">>, <<"org_teams", "team">>,
         <<"team_tasks", "team">>, <<"team_tasks", "task">>,
         <<"members", "member">>,
         <<eventOfCollection, "task">>, <<eventOfCollection, "org">>,
         <<eventOfCollection, "organization">>}

\* The keys event, events and type of a request body hold a string, Str(s), or
\* an array of strings, Arr(<<s1, ...>>); the other keys that name a hint hold a
\* string; payload and document hold an object.
Arr(seq) == [arr |-> seq]
IsArray(v) == DOMAIN v = {"arr"}

\* truthiness of obj.k for a key holding a string or an array
TruthyVal(obj, k) == k \in DOMAIN obj /\ (IsArray(obj[k]) \/ obj[k].str # "")

\* an explicit hint that is not a string (an array in req.body.type)
NotAString == "<not a string>"

\* req.body?.payload?.collection
payloadCollection(body) ==
    IF "payload" \in DOMAIN body THEN Get(body["payload"], "collection") ELSE Undefined

\* line 266: req.body.docType || req.body.type || req.body.collection ||
\* req.body?.payload?.collection || req.body?.table || req.headers['x-doc-type'] ||
\* req.headers['x-collection']
explicitOf(headers, body) ==
    IF TruthyStr(body, "docType") THEN body["docType"]
    ELSE IF TruthyVal(body, "type")
    THEN IF IsArray(body["type"]) THEN NotAString ELSE body["type"].str
    ELSE OrElse(Get(body, "collection"),
           OrElse(payloadCollection(body),
             OrElse(Get(body, "table"),
               OrElse(Get(headers, "x-doc-type"), Get(headers, "x-collection")))))

\* lines 267-273: the index the hint names, <<>> when it names none
explicitDocType(explicit) ==
    LET low == toLowerCase(explicit)
    IN  IF explicit \in {Undefined, NotAString} THEN <<>>
        ELSE IF includes(low, "task") THEN <<"tasks">>
        ELSE IF includes(low, "org") /\ includes(low, "member") THEN <<"orgmembers">>
        ELSE IF includes(low, "org") \/ includes(low, "organization") THEN <<"organizations">>
        ELSE IF includes(low, "team") THEN <<"teams">>
        ELSE <<>>

\* Array.isArray(doc[k]) && doc[k].length
NonEmptyArray(doc, k) == k \in DOMAIN doc /\ Len(doc[k]) > 0

\* line 277
looksLikeMember(doc) == TruthyStr(doc, "email") \/ TruthyStr(doc, "role")

\* line 280
looksLikeOrganization(doc) ==
    \/ TruthyStr(doc, "slug")
    \/ NonEmptyArray(doc, "teams")
    \/ NonEmptyArray(doc, "members") /\ ~IsString(doc["members"][1])

\* line 283
looksLikeTeam(doc) ==
    /\ TruthyStr(doc, "name")
    /\ NonEmptyArray(doc, "members")
    /\ \A i \in 1..Len(doc["members"]) : IsString(doc["members"][i])

\* lines 275-289 with the task rule tried first
heuristicsTaskFirst(doc) ==
    IF \E k \in {"title", "userEmail", "description", "status"} : TruthyStr(doc, k)
    THEN "tasks"
    ELSE IF looksLikeMember(doc) THEN "orgmembers"
    ELSE IF looksLikeOrganization(doc) THEN "organizations"
    ELSE IF looksLikeTeam(doc) THEN "teams"
    ELSE "tasks"

\* lines 275-289
heuristics(doc) ==
    IF looksLikeMember(doc) THEN "orgmembers"
    ELSE IF looksLikeOrganization(doc) THEN "organizations"
    ELSE IF looksLikeTeam(doc) THEN "teams"
    ELSE "tasks"

\* lines 264-290
detectDocType(headers, body, doc) ==
    LET named == explicitDocType(explicitOf(headers, body))
    IN  IF named # <<>> THEN named[1] ELSE heuristics(doc)

\* lines 295-336: the body of the document to index
IndexBody(docType, document) ==
    LET strs == CASE docType = "tasks" -> TaskFields
                  [] docType = "organizations" -> {"name", "slug", "description", "createdAt"}
                  [] docType = "teams" -> {"name"}
                  [] OTHER -> {"name", "email", "role"}
        arrs == CASE docType = "organizations" -> {"members", "teams"} \cap DOMAIN document
                  [] docType = "teams" -> {"members"} \cap DOMAIN document
                  [] OTHER -> {}
    IN  [k \in strs \cup arrs \cup {"docType"} |->
            CASE k = "docType" -> docType
              [] k = "createdAt" -> OrElse(Get(document, "createdAt"), Get(document, "$createdAt"))
              [] k \in arrs -> document[k]
              [] OTHER -> Get(document, k)]

\* lines 240-242: bodyEvent is the first truthy of req.body.event, events and
\* type; an array stands for its first element
IndexEvent(headers, body) ==
    LET headerEvent == OrElse(Get(headers, "x-appwrite-event"),
                              Get(headers, "x-appwrite-webhook-event"))
        keys == <<"event", "events", "type">>
        hits == {i \in 1..3 : TruthyVal(body, keys[i])}
        bodyEvent == body[keys[CHOOSE i \in hits : \A j \in hits : i <= j]]
        first == IF hits = {} THEN Undefined
                 ELSE IF IsArray(bodyEvent)
                 THEN IF Len(bodyEvent.arr) > 0 THEN bodyEvent.arr[1] ELSE Undefined
                 ELSE bodyEvent.str
    IN  OrElse(first, OrElse(headerEvent, ""))

\* lines 245-248: req.body?.document || req.body?.payload?.document ||
\* req.body?.payload || (req.body?.$id ? req.body : undefined); <<>> is undefined
IndexDocument(body) ==
    IF "document" \in DOMAIN body THEN <<body["document"]>>
    ELSE IF "payload" \in DOMAIN body /\ "document" \in DOMAIN body["payload"]
    THEN <<body["payload"]["document"]>>
    ELSE IF "payload" \in DOMAIN body THEN <<body["payload"]>>
    ELSE IF TruthyStr(body, "$id") THEN <<body>>
    ELSE <<>>

\* line 258
indicesToTry == <<"tasks", "organizations", "teams", "orgmembers">>

\* lines 237-340: up to the first store call; on a delete event line 259 sends a
\* delete to each index of indicesToTry before the handler waits
IndexRequest(r, headers, body) ==
    /\ Free(r)
    /\ LET event == IndexEvent(headers, body)
           found == IndexDocument(body)
           document == IF found = <<>> THEN EmptyObj ELSE found[1]
           docType == detectDocType(headers, body, document)
           cur == [IdleReq EXCEPT !.endpoint = "index", !.event = event, !.doc = document,
                                  !.explicit = explicitOf(headers, body)]
       IN  IF ~TruthyStr(document, "$id")
           THEN /\ Respond(r, cur, Err(400, "missing_document"))
                /\ deletedTasks' = deletedTasks
           ELSE IF IsDeleteEvent(event)
           THEN /\ req' = [req EXCEPT ![r] =
                       [cur EXCEPT !.pc = "delete", !.id = document["$id"],
                                   !.pending = {indicesToTry[i] : i \in 1..Len(indicesToTry)}]]
                /\ deletedTasks' = deletedTasks
           ELSE /\ req' = [req EXCEPT ![r] =
                       [cur EXCEPT !.pc = "index", !.id = document["$id"],
                                   !.body = IndexBody(docType, document),
                                   !.action = "upserted"]]
                /\ deletedTasks' = IF docType = "tasks"
                                   THEN deletedTasks \ {document["$id"]} ELSE deletedTasks
    /\ UNCHANGED <<tasksIdx, orgsIdx, tasksSeen, orgsSeen, schema, mappingSummaryCache, clock, extraIdx>>

\* IndexDelete without the catch on each delete: the first delete that fails
\* rejects Promise.all and the handler answers from its catch block
IndexDeleteOrFail(r, idx, ok) ==
    /\ req[r].endpoint = "index" /\ req[r].pc = "delete"
    /\ idx \in req[r].pending
    /\ tasksIdx' = IF ok /\ idx = "tasks" THEN EsDelete(tasksIdx, req[r].id) ELSE tasksIdx
    /\ orgsIdx' = IF ok /\ idx = "organizations" THEN EsDelete(orgsIdx, req[r].id) ELSE orgsIdx
    /\ extraIdx' = [i \in DOMAIN extraIdx |->
                       IF ok /\ i = idx THEN EsDelete(extraIdx[i], req[r].id) ELSE extraIdx[i]]
    /\ IF ok
       THEN req' = [req EXCEPT ![r] = [@ EXCEPT !.pending = @ \ {idx}]]
       ELSE Respond(r, [req[r] EXCEPT !.calls = @ \cup {"delete"}], Err(500, "index_failed"))
    /\ UNCHANGED <<tasksSeen, orgsSeen, schema, mappingSummaryCache, clock, deletedTasks>>

\* line 259: the store settles one of the four deletes, esClient.delete({ index:
\* idx, id }); a failure is swallowed by the catch of that delete.  The handler
\* stays on the await of Promise.all
IndexDelete(r, idx, ok) ==
    /\ req[r].endpoint = "index" /\ req[r].pc = "delete"
    /\ idx \in req[r].pending
    /\ tasksIdx' = IF ok /\ idx = "tasks" THEN EsDelete(tasksIdx, req[r].id) ELSE tasksIdx
    /\ orgsIdx' = IF ok /\ idx = "organizations" THEN EsDelete(orgsIdx, req[r].id) ELSE orgsIdx
    /\ extraIdx' = [i \in DOMAIN extraIdx |->
                       IF ok /\ i = idx THEN EsDelete(extraIdx[i], req[r].id) ELSE extraIdx[i]]
    /\ req' = [req EXCEPT ![r] = [@ EXCEPT !.pending = @ \ {idx}]]
    /\ UNCHANGED <<tasksSeen, orgsSeen, schema, mappingSummaryCache, clock, deletedTasks>>

\* lines 259-260: the four deletes have settled, Promise.all is fulfilled and
\* the handler answers
IndexDeleted(r) ==
    /\ req[r].endpoint = "index" /\ req[r].pc = "delete"
    /\ req[r].pending = {}
    /\ deletedTasks' = deletedTasks \cup {req[r].id}
    /\ Respond(r, [req[r] EXCEPT !.calls = @ \cup {"delete"}], Ok("deleted", req[r].id))
    /\ UNCHANGED <<tasksIdx, orgsIdx, tasksSeen, orgsSeen, schema, mappingSummaryCache, clock, extraIdx>>

\* line 342: await esClient.index({ index: indexName, id, document: body })
IndexWrite(r, ok) ==
    /\ req[r].endpoint = "index" /\ req[r].pc = "index"
    /\ LET cur == [req[r] EXCEPT !.calls = @ \cup {"index"}]
           indexName == cur.body["docType"]
           source == JsonOrg(cur.body)
       IN  IF ok
           THEN /\ tasksIdx' = IF indexName = "tasks"
                               THEN EsIndex(tasksIdx, cur.id, source) ELSE tasksIdx
                /\ orgsIdx' = IF indexName = "organizations"
                              THEN EsIndex(orgsIdx, cur.id, source) ELSE orgsIdx
                /\ extraIdx' = [idx \in DOMAIN extraIdx |->
                                   IF idx = indexName
                                   THEN EsIndex(extraIdx[idx], cur.id, source)
                                   ELSE extraIdx[idx]]
                /\ req' = [req EXCEPT ![r] = [cur EXCEPT !.pc = "refresh"]]
           ELSE /\ UNCHANGED <<tasksIdx, orgsIdx, extraIdx>>
                /\ Respond(r, cur, Err(500, "index_failed"))
    /\ UNCHANGED <<tasksSeen, orgsSeen, schema, mappingSummaryCache, clock, deletedTasks>>

\* lines 343-345: await esClient.indices.refresh({ index: indexName }).catch(() => {})
IndexRefresh(r, ok) ==
    /\ req[r].endpoint = "index" /\ req[r].pc = "refresh"
    /\ tasksSeen' = IF ok /\ req[r].body["docType"] = "tasks" THEN tasksIdx ELSE tasksSeen
    /\ orgsSeen' = IF ok /\ req[r].body["docType"] = "organizations" THEN orgsIdx ELSE orgsSeen
    /\ Respond(r, [req[r] EXCEPT !.calls = @ \cup {"refresh"}], Ok(req[r].action, req[r].id))
    /\ UNCHANGED <<tasksIdx, orgsIdx, schema, mappingSummaryCache, clock, deletedTasks, extraIdx>>

(***************************************************************************)
(* The second server of src/index.js (lines 381-546): POST /api/index and  *)
(* POST /api/search over the single index ELASTIC_INDEX, the webhook behind *)
(* an optional shared secret.                                               *)
(***************************************************************************)
\* line 427: process.env.ELASTICSEARCH_INDEX || 'tasks', with ELASTICSEARCH_INDEX
\* not set
ELASTIC_INDEX == "tasks"

\* lines 487-493: expectedSecret is process.env.WEBHOOK_SECRET as the request
\* finds it, Undefined when it is not set
Unauthorized(expectedSecret, headers) ==
    LET headerSecret == OrElse(Get(headers, "x-webhook-secret"),
                               Get(headers, "x-webhook-token"))
    IN  expectedSecret # Undefined /\ expectedSecret # "" /\ headerSecret # expectedSecret

\* lines 519-531: the task fields of the payload, without docType
WebhookBody(document) == [k \in TaskFields |-> Get(document, k)]

\* lines 484-531: up to the first store call; the event and the document are
\* read as on lines 240-248 (lines 496-504 repeat them)
WebhookRequest(r, expectedSecret, headers, body) ==
    /\ Free(r)
    /\ LET event == IndexEvent(headers, body)
           found == IndexDocument(body)
           document == IF found = <<>> THEN EmptyObj ELSE found[1]
           start == [IdleReq EXCEPT !.endpoint = "webhook"]
           cur == [start EXCEPT !.event = event, !.doc = document]
       IN  IF Unauthorized(expectedSecret, headers)
           THEN /\ Respond(r, start, Err(401, "unauthorized"))
                /\ deletedTasks' = deletedTasks
           ELSE IF ~TruthyStr(document, "$id")
           THEN /\ Respond(r, cur, Err(400, "missing_document"))
                /\ deletedTasks' = deletedTasks
           ELSE IF IsDeleteEvent(event)
           THEN /\ req' = [req EXCEPT ![r] =
                       [cur EXCEPT !.pc = "delete", !.id = document["$id"]]]
                /\ deletedTasks' = deletedTasks
           ELSE /\ req' = [req EXCEPT ![r] =
                       [cur EXCEPT !.pc = "index", !.id = document["$id"],
                                   !.body = WebhookBody(document),
                                   !.action = "upserted"]]
                /\ deletedTasks' = deletedTasks \ {document["$id"]}
    /\ UNCHANGED <<tasksIdx, orgsIdx, tasksSeen, orgsSeen, schema, mappingSummaryCache, clock, extraIdx>>

\* lines 514-515: await esClient.delete({ index: ELASTIC_INDEX, id }).catch(() => {})
WebhookDelete(r, ok) ==
    /\ req[r].endpoint = "webhook" /\ req[r].pc = "delete"
    /\ tasksIdx' = IF ok THEN EsDelete(tasksIdx, req[r].id) ELSE tasksIdx
    /\ Respond(r, [req[r] EXCEPT !.calls = @ \cup {"delete"}], Ok("deleted", req[r].id))
    /\ deletedTasks' = deletedTasks \cup {req[r].id}
    /\ UNCHANGED <<orgsIdx, tasksSeen, orgsSeen, schema, mappingSummaryCache, clock, extraIdx>>

\* line 533: await esClient.index({ index: ELASTIC_INDEX, id, document: body })
WebhookIndex(r, ok) ==
    /\ req[r].endpoint = "webhook" /\ req[r].pc = "index"
    /\ LET cur == [req[r] EXCEPT !.calls = @ \cup {"index"}]
       IN  IF ok
           THEN /\ tasksIdx' = EsIndex(tasksIdx, cur.id, JsonFlat(cur.body))
                /\ req' = [req EXCEPT ![r] = [cur EXCEPT !.pc = "refresh"]]
           ELSE /\ tasksIdx' = tasksIdx
                /\ Respond(r, cur, Err(500, "index_failed"))
    /\ UNCHANGED <<orgsIdx, tasksSeen, orgsSeen, schema, mappingSummaryCache, clock, deletedTasks, extraIdx>>

\* lines 534-536: await esClient.indices.refresh({ index: ELASTIC_INDEX }).catch(() => {})
WebhookRefresh(r, ok) ==
    /\ req[r].endpoint = "webhook" /\ req[r].pc = "refresh"
    /\ tasksSeen' = IF ok THEN tasksIdx ELSE tasksSeen
    /\ Respond(r, [req[r] EXCEPT !.calls = @ \cup {"refresh"}], Ok(req[r].action, req[r].id))
    /\ UNCHANGED <<tasksIdx, orgsIdx, orgsSeen, schema, mappingSummaryCache, clock, deletedTasks, extraIdx>>

\* lines 447-474: esClient.search(esQuery) on ELASTIC_INDEX and the items made of
\* its hits.  simple_query_string of `${query}*` over the fields of line 456
\* with default_operator and: every word of the query is a term of one of the
\* fields, the last word as a prefix.  { term: { userEmail } }: the value as it
\* stands is one of the terms the store indexed for the field.  An item is
\* { $id: h._id, ...h._source } with the _source of line 466
ElasticSearch(query, userEmail) ==
    LET fields == {"title", "description", "category", "assignee", "invites"}
        kept == {"title", "description", "category", "status", "priority", "dueDate",
                 "userEmail", "$createdAt", "$updatedAt"}
        w == Words(query)
        textHit(source) ==
            \A i \in 1..Len(w) :
               \E f \in fields : \E t \in IndexedTerms(ELASTIC_INDEX, source, f) :
                  IF i = Len(w) THEN IsPrefix(w[i], t) ELSE w[i] = t
        termHit(source) == userEmail \in IndexedTerms(ELASTIC_INDEX, source, "userEmail")
    IN  {[id |-> id, source |-> [k \in DOMAIN tasksSeen[id] \cap kept |-> tasksSeen[id][k]]] :
            id \in {d \in DOMAIN tasksSeen : textHit(tasksSeen[d]) /\ termHit(tasksSeen[d])}}

\* lines 435-445: validation
ElasticSearchRequest(r, query, userEmail) ==
    /\ Free(r)
    /\ LET cur == [IdleReq EXCEPT !.endpoint = "elastic_search", !.query = query,
                                  !.userEmail = userEmail]
       IN  IF ~Truthy(userEmail)
           THEN Respond(r, cur, Err(400, "userEmail required"))
           ELSE IF ~Truthy(query) \/ Len(Trim(query)) < 2
           THEN Respond(r, cur, Ok("", ""))
           ELSE req' = [req EXCEPT ![r] = [cur EXCEPT !.pc = "search"]]
    /\ UNCHANGED <<tasksIdx, orgsIdx, tasksSeen, orgsSeen, schema, mappingSummaryCache, clock, deletedTasks, extraIdx>>

\* lines 469-480
ElasticSearchCall(r, ok) ==
    /\ req[r].endpoint = "elastic_search" /\ req[r].pc = "search"
    /\ LET cur == [req[r] EXCEPT !.calls = @ \cup {"search"}]
       IN  IF ~ok
           THEN Respond(r, cur, Err(500, "search_failed"))
           ELSE Respond(r, [cur EXCEPT !.results = ElasticSearch(cur.query, cur.userEmail)],
                        Ok("", ""))
    /\ UNCHANGED <<tasksIdx, orgsIdx, tasksSeen, orgsSeen, schema, mappingSummaryCache, clock, deletedTasks, extraIdx>>

(***************************************************************************)
(* The requests the model sends.                                           *)
(***************************************************************************)
WithId(id, obj) == obj @@ ("$id" :> id)

memA == WithId("m1", [name |-> "Ann", email |-> "a@x.com", role |-> "owner"])
memB == WithId("m2", [name |-> "Bob", email |-> "b@x.com", role |-> "user"])
teamT == WithId("tm1", [name |-> "Core", members |-> <<Str("m1")>>])

\* a full organization
orgAcme == WithId("o1", [name |-> "Acme", slug |-> "acme",
                         members |-> <<memA, memB>>, teams |-> <<teamT>>])
\* member events
memPartial == WithId("m1", [role |-> "admin", organizationId |-> "o1"])
memNew == [name |-> "Cy", email |-> "c@y.org", orgId |-> "o1"]
memNoParent == WithId("m1", [email |-> "a@x.com"])
memAndTeam == [email |-> "c@y.org", name |-> "Cy", members |-> <<>>, parentOrgId |-> "o1"]
\* team events
teamCore == WithId("tm1", [name |-> "Core", members |-> <<Str("m1"), Str("m2")>>,
                           organizationId |-> "o1"])
teamNew == [name |-> "Ops", members |-> <<Str("m2")>>, org |-> WithId("o1", EmptyObj)]
teamNoParent == WithId("tm1", [name |-> "Core", members |-> <<Str("m1"), Str("m2")>>])

OrgPayloads == {orgAcme, memPartial, memNew, memNoParent, memAndTeam,
                teamCore, teamNew, teamNoParent}

taskOpen == WithId("t1", [title |-> "Design review", userEmail |-> "a@x.com",
                          status |-> "open", priority |-> "high"])
taskBare == WithId("t1", [title |-> "Design review", userEmail |-> "a@x.com"])
taskOther == WithId("t2", [title |-> "Design doc", userEmail |-> "b@x.com",
                           colour |-> "red"])
taskNoId == [title |-> "Design doc", userEmail |-> "b@x.com"]

TaskPayloads == {taskOpen, taskBare, taskOther, taskNoId}

Bodies(payloads) == {<<>>} \cup {<<d>> : d \in payloads}

Queries == {Undefined, " d ", "desi", "acme"}
Users == {Undefined, "a@x.com", "b@x.com"}

(***************************************************************************)
(* The program.                                                            *)
(***************************************************************************)
Init ==
    /\ tasksIdx = EmptyObj
    /\ orgsIdx = EmptyObj
    /\ tasksSeen = EmptyObj
    /\ orgsSeen = EmptyObj
    /\ schema \in Schemas
    /\ mappingSummaryCache = EmptyObj
    /\ clock = 0
    /\ deletedTasks = {}
    /\ extraIdx = [teams |-> EmptyObj, orgmembers |-> EmptyObj]
    /\ req = [r \in Slots |-> IdleReq]

Outcomes == BOOLEAN     \* a store call succeeds or fails
Succeeds == {TRUE}      \* a store call that is taken to succeed

\* the organization webhook alone, one request at a time; the refresh after a
\* write is taken to succeed: a failed refresh differs only in orgsSeen, which
\* no step of this specification reads (SpecWrite and SpecSearch have it)
OrgStep(r) ==
    \/ \E event \in Events, body \in Bodies(OrgPayloads) : OrgRequest(r, event, body)
    \/ \E ok \in Outcomes : OrgDelete(r, ok)
    \/ \E ok \in Outcomes : OrgGet(r, ok)
    \/ \E ok \in Outcomes : OrgIndex(r, ok)
    \/ \E ok \in Succeeds : OrgRefresh(r, ok)

NextOrg ==
    \/ OrgStep("r1")
    \/ Tick

\* two organization requests at a time: merges of a new member and of a new team
\* into the aggregate o1, which starts as the empty shell; the refresh is taken
\* to succeed as in OrgStep
RaceStep(r) ==
    \/ \E body \in {<<memNew>>, <<teamNew>>} :
          OrgRequest(r, "databases.documents.update", body)
    \/ \E ok \in Outcomes : OrgGet(r, ok)
    \/ \E ok \in Outcomes : OrgIndex(r, ok)
    \/ \E ok \in Succeeds : OrgRefresh(r, ok)

NextRace ==
    \/ \E r \in Slots : RaceStep(r)
    \/ Tick

\* tasks, full organizations and searches, one request at a time, over a store
\* that refreshes on its own and whose calls may fail
orgSolo == WithId("o2", [name |-> "Acme", members |-> <<memB>>])

SearchSpecStep(r) ==
    \/ \E event \in Events \ {""}, body \in Bodies(TaskPayloads) : TaskRequest(r, event, body)
    \/ \E ok \in Outcomes : TaskDelete(r, ok)
    \/ \E ok \in Outcomes : TaskIndex(r, ok)
    \/ \E ok \in Outcomes : TaskRefresh(r, ok)
    \/ OrgRequest(r, "databases.documents.update", <<orgSolo>>)
    \/ \E ok \in Outcomes : OrgIndex(r, ok)
    \/ \E ok \in Outcomes : OrgRefresh(r, ok)
    \/ \E query \in Queries, userEmail \in Users, debug \in BOOLEAN :
          SearchRequest(r, query, userEmail, debug)
    \/ \E ok \in Outcomes : SearchLoad(r, ok)
    \/ SearchBuild(r)
    \/ \E ok \in Outcomes : SearchCall(r, ok)
    \/ \E ok \in Outcomes : SearchUnfiltered(r, ok)

NextSearch ==
    \/ SearchSpecStep("r1")
    \/ \E ok \in Outcomes : LoadMappings(ok)
    \/ StoreRefresh

\* the task webhook alone, one request at a time
TaskStep(r) ==
    \/ \E event \in Events, body \in Bodies(TaskPayloads) : TaskRequest(r, event, body)
    \/ \E ok \in Outcomes : TaskDelete(r, ok)
    \/ \E ok \in Outcomes : TaskIndex(r, ok)
    \/ \E ok \in Outcomes : TaskRefresh(r, ok)

NextTask ==
    \/ TaskStep("r1")
    \/ StoreRefresh

\* the requests of POST /api/index: a record holds the keys the request carries
Opt(k, v) == IF v = Undefined THEN EmptyObj ELSE (k :> v)
OptStr(k, v) == IF v = Undefined THEN EmptyObj ELSE (k :> Str(v))

\* documents of every shape the structural rules of detectDocType look at
ScalarSamples ==
    [email |-> "a@x.com", role |-> "owner", slug |-> "acme", name |-> "Acme",
     title |-> "Design review", status |-> "open"]

\* <<>> stands for an absent key, <<arr>> for the array arr
TeamsOptions == {<<>>, <<<<>>>>, <<<<teamT>>>>}
MembersOptions == {<<>>, <<<<>>>>, <<<<memA>>>>, <<<<Str("m1")>>>>,
                   <<<<Str("m1"), memA>>>>, <<<<memA, Str("m1")>>>>}

DetectDoc(keys, teams, members) ==
    [k \in keys \cup {"$id"} \cup (IF teams # <<>> THEN {"teams"} ELSE {})
                \cup (IF members # <<>> THEN {"members"} ELSE {}) |->
        CASE k = "$id" -> "d1"
          [] k = "teams" -> teams[1]
          [] k = "members" -> members[1]
          [] OTHER -> ScalarSamples[k]]

DetectDocs ==
    {DetectDoc(keys, teams, members) :
        keys \in SUBSET DOMAIN ScalarSamples, teams \in TeamsOptions, members \in MembersOptions}

\* req.body.docType, the caller's type hint
Hints == {Undefined, "tasks", "Tasks", "OrgMembers", "organizations", "teams",
          "org_teams", "team_tasks", "members", "projects"}

\* req.body.type, where an integration puts the event descriptor
BodyTypes == {Undefined, "databases.documents.update", eventOfCollection}

\* where the request carries its document: req.body.document,
\* req.body.payload.document, req.body.payload, or the body itself; pcoll is
\* req.body.payload.collection
WrapShapes == {"document", "payload.document", "payload", "body"}

Wrap(shape, doc, pcoll, rest) ==
    LET inPayload == Opt("collection", pcoll)
        payloadOnly == IF pcoll = Undefined THEN EmptyObj ELSE ("payload" :> inPayload)
    IN  CASE shape = "document" -> rest @@ ("document" :> doc) @@ payloadOnly
          [] shape = "payload.document" ->
                rest @@ ("payload" :> (inPayload @@ ("document" :> doc)))
          [] shape = "payload" -> rest @@ ("payload" :> (doc @@ inPayload))
          [] OTHER -> doc @@ rest @@ payloadOnly

\* req.body.event, req.body.events and req.body.type as strings and as arrays
EventKeys ==
    {EmptyObj,
     "event" :> Str("databases.documents.delete"),
     "events" :> Str("databases.documents.delete"),
     "events" :> Arr(<<"databases.documents.delete", "databases.documents.update">>),
     "events" :> Arr(<<>>),
     ("event" :> Str("")) @@ ("type" :> Arr(<<"databases.documents.update">>)),
     ("events" :> Arr(<<"databases.documents.update">>)) @@ ("type" :> Str("teams"))}

WrappedBodies ==
    {Wrap(shape, doc, pcoll, Opt("table", table) @@ ev) :
        shape \in WrapShapes, doc \in {taskOpen, memA, teamNoParent},
        pcoll \in {Undefined, "teams", "OrgMembers"}, table \in {Undefined, "tasks"},
        ev \in EventKeys}

DetectBodies ==
    {EmptyObj} \cup
    {Opt("docType", hint) @@ OptStr("type", type) @@ ("document" :> doc) :
        hint \in Hints, type \in BodyTypes, doc \in DetectDocs}
    \cup WrappedBodies

\* the classification of one request of POST /api/index
NextDetect ==
    /\ req["r1"].pc = "idle"
    /\ \E headers \in {EmptyObj, "x-appwrite-event" :> "databases.documents.update",
                        "x-doc-type" :> "teams"},
          body \in DetectBodies : IndexRequest("r1", headers, body)

\* POST /api/index alone, one request at a time, over a store whose calls may fail
IndexPayloads == {taskOpen, orgAcme, memA}

IndexBodies ==
    {EmptyObj} \cup
    {Opt("docType", hint) @@ OptStr("event", event) @@ ("document" :> doc) :
        hint \in {Undefined, "teams"}, event \in Events \ {""}, doc \in IndexPayloads}
    \cup {Wrap(shape, doc, "teams", "events" :> Arr(<<"databases.documents.delete">>)) :
             shape \in WrapShapes, doc \in IndexPayloads}

IndexStep(r) ==
    \/ \E body \in IndexBodies : IndexRequest(r, EmptyObj, body)
    \/ \E idx \in {"tasks", "organizations", "teams", "orgmembers"}, ok \in Outcomes :
          IndexDelete(r, idx, ok)
    \/ IndexDeleted(r)
    \/ \E ok \in Outcomes : IndexWrite(r, ok)
    \/ \E ok \in Outcomes : IndexRefresh(r, ok)

NextIndex ==
    \/ IndexStep("r1")
    \/ StoreRefresh

\* the three paths that write a document, one request at a time, over a store
\* whose index and refresh calls may fail
WriteStep(r) ==
    \/ \E doc \in {taskOpen, taskBare} : TaskRequest(r, "databases.documents.update", <<doc>>)
    \/ \E ok \in Outcomes : TaskIndex(r, ok)
    \/ \E ok \in Outcomes : TaskRefresh(r, ok)
    \/ \E doc \in {orgAcme, memPartial, teamNew} : OrgRequest(r, "databases.documents.update", <<doc>>)
    \/ \E ok \in Outcomes : OrgGet(r, ok)
    \/ \E ok \in Outcomes : OrgIndex(r, ok)
    \/ \E ok \in Outcomes : OrgRefresh(r, ok)

\* upserts and deletes of one task and one organization, one request at a time;
\* every store call may fail.  The server is the one of src/unnamed/part_000
\* (POST /api/index/task, POST /api/index/organization) or the one of
\* src/index.js (POST /api/index): the first request decides, and the requests
\* that follow go to the same server
DeleteEvents == {"databases.documents.update", "databases.documents.delete"}

DeleteBodies ==
    {Opt("docType", hint) @@ ev @@ ("document" :> doc) :
        hint \in {Undefined, "teams"},
        ev \in {"event" :> Str(event) : event \in DeleteEvents}
                 \cup {"events" :> Arr(<<"databases.documents.delete">>)},
        doc \in {taskOpen, orgAcme}}

DeleteStep(r) ==
    \/ \E event \in DeleteEvents :
          /\ req[r].endpoint \in {"none", "task", "organization"}
          /\ TaskRequest(r, event, <<taskOpen>>)
    \/ \E ok \in Outcomes : TaskDelete(r, ok)
    \/ \E ok \in Outcomes : TaskIndex(r, ok)
    \/ \E ok \in Outcomes : TaskRefresh(r, ok)
    \/ \E event \in DeleteEvents :
          /\ req[r].endpoint \in {"none", "task", "organization"}
          /\ OrgRequest(r, event, <<orgAcme>>)
    \/ \E ok \in Outcomes : OrgDelete(r, ok)
    \/ \E ok \in Outcomes : OrgIndex(r, ok)
    \/ \E ok \in Outcomes : OrgRefresh(r, ok)
    \/ \E body \in DeleteBodies :
          /\ req[r].endpoint \in {"none", "index"}
          /\ IndexRequest(r, EmptyObj, body)
    \/ \E idx \in {"tasks", "organizations", "teams", "orgmembers"}, ok \in Outcomes :
          IndexDelete(r, idx, ok)
    \/ IndexDeleted(r)
    \/ \E ok \in Outcomes : IndexWrite(r, ok)
    \/ \E ok \in Outcomes : IndexRefresh(r, ok)

\* the second server of src/index.js alone, one request at a time, over a store
\* that refreshes on its own and whose calls may fail; WEBHOOK_SECRET is set or
\* not, and the request carries the secret, another one, or none
WebhookStep(r) ==
    \/ \E expectedSecret \in {Undefined, "s3cret"},
          headers \in {EmptyObj, "x-webhook-secret" :> "s3cret",
                       "x-webhook-token" :> "s3cret", "x-webhook-secret" :> "wrong"},
          body \in {EmptyObj}
                   \cup {OptStr("event", event) @@ ("document" :> doc) :
                            event \in DeleteEvents, doc \in {taskOpen, orgAcme}}
                   \cup {Wrap(shape, taskOpen, Undefined,
                               "events" :> Arr(<<"databases.documents.delete">>)) :
                            shape \in WrapShapes} :
          WebhookRequest(r, expectedSecret, headers, body)
    \/ \E ok \in Outcomes : WebhookDelete(r, ok)
    \/ \E ok \in Outcomes : WebhookIndex(r, ok)
    \/ \E ok \in Outcomes : WebhookRefresh(r, ok)
    \/ \E query \in Queries, userEmail \in Users : ElasticSearchRequest(r, query, userEmail)
    \/ \E ok \in Outcomes : ElasticSearchCall(r, ok)

\* two requests at a time: searches that may start on the empty cache, and
\* upserts and deletes of a task and of an organization; every store call may fail
LoadRaceStep(r) ==
    \/ SearchRequest(r, "desi", "a@x.com", FALSE)
    \/ \E ok \in Outcomes : SearchLoad(r, ok)
    \/ SearchBuild(r)
    \/ \E ok \in Outcomes : SearchCall(r, ok)
    \/ \E event \in DeleteEvents : TaskRequest(r, event, <<taskOpen>>)
    \/ \E ok \in Outcomes : TaskDelete(r, ok)
    \/ \E ok \in Outcomes : TaskIndex(r, ok)
    \/ \E ok \in Outcomes : TaskRefresh(r, ok)
    \/ \E event \in DeleteEvents : OrgRequest(r, event, <<orgSolo>>)
    \/ \E ok \in Outcomes : OrgDelete(r, ok)
    \/ \E ok \in Outcomes : OrgIndex(r, ok)
    \/ \E ok \in Outcomes : OrgRefresh(r, ok)

\* with the load started when the process starts (line 370) and the loads asked
\* for by GET /api/mappings?refresh=true (lines 349-351), which belong to no
\* request slot
NextLoadRace ==
    \/ \E r \in Slots : LoadRaceStep(r)
    \/ \E ok \in Outcomes : LoadMappings(ok)

InitOrg == Init /\ schema = SchemaWith(TextKeywordDef)

SpecOrg == InitOrg /\ [][NextOrg]_vars

SpecRace == InitOrg /\ [][NextRace]_vars

SpecSearch == Init /\ [][NextSearch]_vars

SpecTask == InitOrg /\ [][NextTask]_vars

SpecWrite == InitOrg /\ [][WriteStep("r1")]_vars

SpecDelete == InitOrg /\ [][DeleteStep("r1")]_vars

SpecLoadRace == InitOrg /\ [][NextLoadRace]_vars

SpecDetect == InitOrg /\ [][NextDetect]_vars

SpecIndex == InitOrg /\ [][NextIndex]_vars

SpecWebhook == Init /\ [][WebhookStep("r1") \/ StoreRefresh]_vars

(***************************************************************************)
(* Properties of the organization webhook (SpecOrg).                       *)
(***************************************************************************)
\* the request of slot r went through the merge path and its aggregate is written
Merged(r) ==
    /\ req[r].endpoint = "organization"
    /\ req[r].action = "merged_into_organization"
    /\ "index" \in req[r].calls
    /\ req[r].pc = "done" => req[r].resp.ok

\* the aggregate the request of slot r sends to the store
Written(r) == JsonOrg(req[r].body)

\* after is before with one entry replaced in place, or with one entry appended
OneEntryUpserted(before, after) ==
    \/ /\ Len(after) = Len(before)
       /\ \E i \in 1..Len(before) : \A j \in 1..Len(before) : j # i => after[j] = before[j]
    \/ /\ Len(after) = Len(before) + 1
       /\ \A j \in 1..Len(before) : after[j] = before[j]

\* C1: a member child-merge into a stored aggregate writes back an aggregate with
\* the same teams, name, slug and description, whose members are those stored
\* with the one entry of the incoming $id replaced in place, or one entry appended.
C1_MemberMergeKeepsSiblings ==
    \A r \in Slots :
        (Merged(r) /\ IsMemberPayload(req[r].doc) /\ req[r].stored # <<>>) =>
            LET before == req[r].stored[1]
                after == Written(r)
            IN  /\ OneEntryUpserted(before["members"], after["members"])
                /\ after["teams"] = before["teams"]
                /\ \A k \in {"name", "slug", "description"} : Get(after, k) = Get(before, k)

\* C6: when a member merge matches a stored member by $id, every field of that
\* member which the payload does not carry keeps its value in the written aggregate.
C6_PartialMemberKeepsFields ==
    \A r \in Slots :
        (Merged(r) /\ IsMemberPayload(req[r].doc) /\ req[r].existing # <<>>
           /\ TruthyStr(req[r].doc, "$id")) =>
            LET before == req[r].existing[1]["members"]
                after == Written(r)["members"]
                i == FindIndex(before, req[r].doc["$id"])
            IN  i >= 1 =>
                  \A k \in DOMAIN before[i] \ DOMAIN req[r].doc :
                      k \in DOMAIN after[i] /\ after[i][k] = before[i][k]

\* C7: a team payload with its own $id and a parent reference is merged into the
\* aggregate of the parent: the answer is merged_into_organization for the parent
\* id, and nothing is written under the team's own $id.
C7_TeamWithIdIsMerged ==
    \A r \in Slots :
        (/\ req[r].endpoint = "organization" /\ req[r].pc = "done"
         /\ ~IsDeleteEvent(req[r].event)
         /\ IsTeamPayload(req[r].doc) /\ ~IsMemberPayload(req[r].doc)
         /\ "teams" \notin DOMAIN req[r].doc
         /\ TruthyStr(req[r].doc, "$id")
         /\ Truthy(ParentOrgId(req[r].doc))
         /\ req[r].resp.ok) =>
            /\ req[r].resp.action = "merged_into_organization"
            /\ req[r].resp.id = ParentOrgId(req[r].doc)
            /\ req[r].id # req[r].doc["$id"]

\* C8: a non-delete request whose payload is a member or a team and names no
\* parent organization is answered 400 missing_parent_org_id without any store call.
C8_ChildWithoutParentRejected ==
    \A r \in Slots :
        (/\ req[r].endpoint = "organization" /\ req[r].pc = "done"
         /\ ~IncludesDelete(req[r].event)
         /\ req[r].doc # EmptyObj
         /\ IsMemberPayload(req[r].doc) \/ IsTeamPayload(req[r].doc)
         /\ ~Truthy(ParentOrgId(req[r].doc))) =>
            /\ req[r].resp = Err(400, "missing_parent_org_id")
            /\ req[r].calls = {}

ChildIds(arr) == {Get(arr[i], "$id") : i \in 1..Len(arr)}

\* C9: the merge starts from the empty shell only when nothing is stored under the
\* parent id; when a document is stored there at the fetch, the aggregate written
\* back has every member and every team of the stored document.
C9_StoredAggregateNotLost ==
    \A r \in Slots :
        (Merged(r) /\ req[r].stored # <<>>) =>
            /\ req[r].existing # <<>>
            /\ ChildIds(req[r].stored[1]["members"]) \subseteq ChildIds(Written(r)["members"])
            /\ ChildIds(req[r].stored[1]["teams"]) \subseteq ChildIds(Written(r)["teams"])

\* C10: an aggregate stored under X leaves the store only in the delete call of a
\* delete event whose document is the organization X itself ($id = X).
C10_OnlyOrganizationDeleteRemoves ==
    [][\A x \in DOMAIN orgsIdx \ DOMAIN orgsIdx' :
          \E r \in Slots :
              /\ req[r].endpoint = "organization" /\ req[r].pc = "delete"
              /\ req'[r].pc = "done"
              /\ IsDeleteEvent(req[r].event)
              /\ Get(req[r].doc, "$id") = x]_vars

\* C11: every document of the organizations index, written by a full upsert or by
\* a child merge from an empty store, has a members and a teams collection.
C11_AggregateHasMembersAndTeams ==
    \A id \in DOMAIN orgsIdx : {"members", "teams"} \subseteq DOMAIN orgsIdx[id]

\* a payload with members and without teams was stored as a full organization,
\* and a merge into an id with nothing stored was written from the shell
C11_DefaultsStored ==
    /\ "tm1" \in DOMAIN orgsIdx
    /\ orgsIdx["tm1"]["teams"] = <<>>
    /\ Len(orgsIdx["tm1"]["members"]) = 2
    /\ \E r \in Slots : Merged(r) /\ req[r].existing = <<>> /\ req[r].pc = "done"
                           /\ req[r].id \in DOMAIN orgsIdx


(***************************************************************************)
(* Properties of two merges at a time (SpecRace).                          *)
(***************************************************************************)
\* the request of slot r was answered ok with merged_into_organization
AnsweredMerged(r) ==
    /\ Merged(r) /\ req[r].pc = "done"
    /\ req[r].resp = Ok("merged_into_organization", req[r].id)

\* C2: nothing reconciles two merges into the same aggregate: once both are
\* answered merged_into_organization, the store holds the aggregate one of them
\* built from its own fetch, so a child the other wrote after that fetch is gone.
C2_StoreHoldsOneWritersAggregate ==
    \A r, q \in Slots :
        (r # q /\ AnsweredMerged(r) /\ AnsweredMerged(q) /\ req[r].id = req[q].id) =>
            /\ req[r].id \in DOMAIN orgsIdx
            /\ orgsIdx[req[r].id] \in {Written(r), Written(q)}

\* both merges fetched before either wrote, both were answered
\* merged_into_organization, and the stored aggregate has the team of the second
\* writer and not the member of the first
C2_LostUpdate ==
    \E r, q \in Slots :
        /\ r # q /\ AnsweredMerged(r) /\ AnsweredMerged(q)
        /\ req[r].doc = memNew /\ req[q].doc = teamNew
        /\ req[r].id = "o1" /\ req[q].id = "o1"
        /\ req[r].stored = <<>> /\ req[q].stored = <<>>
        /\ "o1" \in DOMAIN orgsIdx
        /\ orgsIdx["o1"]["members"] = <<>>
        /\ Len(orgsIdx["o1"]["teams"]) = 1

\* C12: a child-merge event delivered a second time, its fetch returning the
\* aggregate the first delivery wrote, writes that same aggregate again.
C12_SameEventTwiceSameAggregate ==
    \A r, q \in Slots :
        (/\ r # q /\ AnsweredMerged(r) /\ AnsweredMerged(q)
         /\ req[r].doc = req[q].doc /\ req[r].id = req[q].id
         /\ req[q].existing = <<Written(r)>>) =>
            /\ Written(q) = Written(r)
            /\ orgsIdx[req[q].id] = Written(r)

(***************************************************************************)
(* Properties of the task webhook (SpecTask).                              *)
(***************************************************************************)
\* the upsert of slot r has written its document
TaskWritten(r) ==
    /\ req[r].endpoint = "task"
    /\ req[r].action = "upserted"
    /\ "index" \in req[r].calls
    /\ req[r].pc = "done" => req[r].resp.ok

\* C5: the task document stored by an upsert is the projection of the payload on
\* the fixed fields, tagged docType 'tasks', whatever was stored before: a field
\* the payload lacks is absent, a field it carries has the payload's value.
C5_TaskStoredFromPayloadAlone ==
    \A r \in Slots :
        TaskWritten(r) =>
            /\ req[r].id \in DOMAIN tasksIdx
            /\ LET source == tasksIdx[req[r].id]
                   document == req[r].doc
               IN  /\ DOMAIN source = (DOMAIN document \cap TaskFields) \cup {"docType"}
                   /\ source["docType"] = "tasks"
                   /\ \A k \in DOMAIN document \cap TaskFields : source[k] = document[k]

\* an update without status has replaced a stored version that had one
C5_FieldOfOldVersionGone ==
    \E r \in Slots :
        /\ TaskWritten(r) /\ req[r].pc = "done"
        /\ req[r].doc = taskBare
        /\ req[r].stored # <<>> /\ "status" \in DOMAIN req[r].stored[1]
        /\ "status" \notin DOMAIN tasksIdx["t1"]

(***************************************************************************)
(* Properties of the search endpoint (SpecSearch).                         *)
(***************************************************************************)
\* the search of slot r was answered with its results
SearchAnswered(r) ==
    req[r].endpoint = "search" /\ req[r].pc = "done" /\ req[r].resp.status = 200

\* C3: a task among the results has the caller as userEmail, an organization
\* among them has a member with the caller's email, and every hit satisfies the
\* text clause (the payloads of the model hold their text in returned fields).
C3_ResultsVisibleToCaller ==
    \A r \in Slots :
        SearchAnswered(r) =>
            \A h \in req[r].results :
                /\ h.index = "tasks" => Get(h.source, "userEmail") = req[r].userEmail
                /\ h.index = "organizations" =>
                      req[r].userEmail \in ValuesAt(h.source, "members.email")
                /\ TextHits(h.index, h.source, req[r].query)

\* C4: once a delete event for task t was answered deleted, and t was not upserted
\* again, no search returns a result whose $id is t.
C4_DeletedTaskNotReturned ==
    \A r \in Slots :
        SearchAnswered(r) =>
            \A h \in req[r].results : h.index = "tasks" => h.id \notin deletedTasks

\* the entry of the mapping summary m for (idx, field) is true
SummarySays(m, idx, field) ==
    idx \in DOMAIN m /\ field \in DOMAIN m[idx] /\ m[idx][field]

\* C13: when a search builds its query, the visibility clause of tasks is a term
\* clause exactly when the summary entry (tasks, userEmail) is true and a match
\* clause when it is false or missing; likewise for (organizations, members.email).
C13_ClauseFollowsSummary ==
    [][\A r \in Slots :
          (req'[r].endpoint = "search" /\ req'[r].pc = "search" /\ req[r].pc # "search") =>
              \A idx \in {"tasks", "organizations"} :
                  /\ req'[r].filter[idx] \in {"term", "match"}
                  /\ req'[r].filter[idx] = "term"
                        <=> SummarySays(mappingSummaryCache', idx, ScopeField(idx))]_vars

\* a query was built with match clauses from a loaded summary whose entries for
\* the scoping fields are false
C13_MatchFromFalseEntry ==
    \E r \in Slots :
        /\ req[r].endpoint = "search" /\ req[r].pc = "search"
        /\ req[r].calls = {}
        /\ mappingSummaryCache # EmptyObj
        /\ ~SummarySays(mappingSummaryCache, "tasks", "userEmail")
        /\ SummarySays(mappingSummaryCache, "tasks", "title")
        /\ req[r].filter = [tasks |-> "match", organizations |-> "match"]

\* C14: a term clause on <field>.keyword is built for an index only when the
\* schema of that index defines a keyword sub-field under the field.
C14_TermOnlyOnKeywordSubfield ==
    \A r \in Slots :
        (req[r].endpoint = "search" /\ "tasks" \in DOMAIN req[r].filter) =>
            \A idx \in {"tasks", "organizations"} :
                req[r].filter[idx] = "term" =>
                    LET def == FieldDef(idx, ScopeField(idx))
                    IN  /\ def # <<>>
                        /\ "fields" \in DOMAIN def[1]
                        /\ "keyword" \in DOMAIN def[1]["fields"]

\* C15: a search with a caller identity and a query that is absent or shorter
\* than two characters once trimmed is answered with no results and without any
\* store call, whether the mapping summary cache is loaded or not.
C15_ShortQueryNoStoreCall ==
    \A r \in Slots :
        (/\ req[r].endpoint = "search"
         /\ Truthy(req[r].userEmail)
         /\ ~Truthy(req[r].query) \/ Len(Trim(req[r].query)) < 2) =>
            /\ req[r].pc = "done"
            /\ req[r].resp = Ok("", "")
            /\ req[r].results = {}
            /\ req[r].calls = {}

\* a one-character query was answered while the mapping summary cache was empty
C15_ShortQueryOnEmptyCache ==
    \E r \in Slots :
        /\ req[r].endpoint = "search" /\ req[r].pc = "done"
        /\ req[r].userEmail = "a@x.com" /\ req[r].query = " d "
        /\ req[r].resp.status = 200
        /\ mappingSummaryCache = EmptyObj

\* C16: a search without userEmail is answered 400 whatever the query, without
\* any store call and without a change of the mapping summary cache.
C16_NoIdentityRejected ==
    [][\A r \in Slots :
          (/\ req'[r] # req[r]
           /\ req'[r].endpoint = "search"
           /\ ~Truthy(req'[r].userEmail)) =>
              /\ req'[r].pc = "done"
              /\ req'[r].resp = Err(400, "userEmail required")
              /\ req'[r].calls = {}
              /\ mappingSummaryCache' = mappingSummaryCache]_vars

\* a search with neither identity nor query was answered 400 on an empty cache
C16_RejectedBeforeShortQuery ==
    \E r \in Slots :
        /\ req[r].endpoint = "search" /\ req[r].pc = "done"
        /\ req[r].userEmail = Undefined /\ req[r].query = Undefined
        /\ req[r].resp.status = 400
        /\ mappingSummaryCache = EmptyObj

\* the lazy load of the search in slot r has ended with a failed schema query
\* and its handler has not resumed yet
OwnLoadFailed(r) ==
    /\ req[r].endpoint = "search" /\ req[r].pc = "resume"
    /\ req[r].loaded = <<SummaryOf(EmptyObj)>>

\* C19 as stated: when the schema query of the lazy load fails, every entry of
\* the summary is false afterwards, and the search that triggered the load goes
\* on to the store with match clauses and is not answered with an error.
C19_FailedLoadFallsBackToMatch ==
    [][\A r \in Slots :
          /\ SearchLoad(r, FALSE) =>
                /\ \A idx \in {"tasks", "organizations"}, f \in fieldsToCheck :
                      ~SummarySays(mappingSummaryCache', idx, f)
                /\ req'[r].resp = NoResp
          /\ (OwnLoadFailed(r) /\ req'[r] # req[r]) =>
                /\ req'[r].pc = "search"
                /\ req'[r].resp = NoResp
                /\ req'[r].filter = [tasks |-> "match", organizations |-> "match"]]_vars

\* C19, amended: when the schema query of the lazy load fails, every entry of
\* the summary that load assigns is false, and the search that triggered the
\* load is not answered with an error: it goes on to the store with the clauses
\* chosen from the cache as it is when the handler resumes, which are match
\* clauses unless another load has assigned the cache in between.
C19_FailedLoadStillSearches ==
    [][\A r \in Slots :
          /\ SearchLoad(r, FALSE) =>
                /\ \A idx \in {"tasks", "organizations"}, f \in fieldsToCheck :
                      ~SummarySays(mappingSummaryCache', idx, f)
                /\ req'[r].pc = "resume"
                /\ req'[r].resp = NoResp
          /\ (OwnLoadFailed(r) /\ req'[r] # req[r]) =>
                /\ req'[r].pc = "search"
                /\ req'[r].resp = NoResp
                /\ req'[r].filter = userFilters(mappingSummaryCache)
                /\ mappingSummaryCache = req[r].loaded[1]
                      => req'[r].filter = [tasks |-> "match", organizations |-> "match"]]_vars

\* over a schema with keyword sub-fields, a search whose load failed was answered
\* from the store with match clauses
C19_AnsweredAfterFailedLoad ==
    \E r \in Slots :
        /\ SearchAnswered(r)
        /\ req[r].calls = {"getMapping", "search"}
        /\ schema = SchemaWith(TextKeywordDef)
        /\ req[r].filter = [tasks |-> "match", organizations |-> "match"]
        /\ req[r].results # {}

\* C20: a load whose schema query fails leaves the cached snapshot as it was:
\* entries that were true stay true.
C20_FailedLoadKeepsSnapshot ==
    [][LoadMappings(FALSE) =>
          \A idx \in DOMAIN mappingSummaryCache : \A f \in DOMAIN mappingSummaryCache[idx] :
              mappingSummaryCache[idx][f] => SummarySays(mappingSummaryCache', idx, f)]_vars

(***************************************************************************)
(* Properties of detectDocType (SpecDetect).                               *)
(***************************************************************************)
\* the request of slot r was classified
Classified(r) == req[r].endpoint = "index" /\ req[r].pc = "index"

\* C17: with no explicit hint, a payload with an email or a role is classified
\* orgmembers whatever else it has, and in general the rules member,
\* organization, team, task are tried in this order and the first that matches
\* decides, tasks being the result when none matches.
C17_MemberRuleFirst ==
    \A r \in Slots :
        (Classified(r) /\ req[r].explicit = Undefined) =>
            LET doc == req[r].doc
                docType == req[r].body["docType"]
            IN  /\ looksLikeMember(doc) => docType = "orgmembers"
                /\ (~looksLikeMember(doc) /\ looksLikeOrganization(doc))
                      => docType = "organizations"
                /\ (~looksLikeMember(doc) /\ ~looksLikeOrganization(doc) /\ looksLikeTeam(doc))
                      => docType = "teams"
                /\ (~looksLikeMember(doc) /\ ~looksLikeOrganization(doc) /\ ~looksLikeTeam(doc))
                      => docType = "tasks"

\* a payload with email, title, status, slug, name, teams and members, sent
\* without a hint, was classified orgmembers
C17_MemberWithTaskFields ==
    \E r \in Slots :
        /\ Classified(r) /\ req[r].explicit = Undefined
        /\ {"email", "title", "status", "slug", "name", "teams", "members"}
              \subseteq DOMAIN req[r].doc
        /\ req[r].body["docType"] = "orgmembers"

\* C18: an explicit hint decides alone, case-insensitively, in the order task,
\* org and member, org, team; and the hint is never the event descriptor: a
\* request whose hint is its event descriptor is classified by its payload.
C18_HintDecidesAndIsNotTheEvent ==
    \A r \in Slots :
        (Classified(r) /\ req[r].explicit # Undefined) =>
            LET docType == req[r].body["docType"]
                low == toLowerCase(req[r].explicit)
            IN  /\ req[r].explicit # req[r].event =>
                    /\ includes(low, "task") => docType = "tasks"
                    /\ (~includes(low, "task") /\ includes(low, "org") /\ includes(low, "member"))
                          => docType = "orgmembers"
                    /\ (~includes(low, "task") /\ includes(low, "org") /\ ~includes(low, "member"))
                          => docType = "organizations"
                    /\ (~includes(low, "task") /\ ~includes(low, "org") /\ includes(low, "team"))
                          => docType = "teams"
                /\ req[r].explicit = req[r].event => docType = heuristics(req[r].doc)

(***************************************************************************)
(* Further properties of the search endpoint (SpecSearch).                 *)
(***************************************************************************)
\* the hits of the filtered search of slot r on what is searchable now
FilteredHits(r) == EsSearch(req[r].query, req[r].userEmail, req[r].filter, TRUE)

\* C21: the results of a search are those of the filtered search, with the debug
\* flag as without it: the unfiltered re-run leaves them as they are, and the
\* answer of the debug mode carries the unfiltered hits too.
C21_DebugKeepsResults ==
    [][\A r \in Slots :
          /\ (req[r].endpoint = "search" /\ req[r].pc = "search"
                /\ req'[r].pc = "done" /\ req'[r].resp.status = 200)
                => req'[r].results = FilteredHits(r)
          /\ (req[r].endpoint = "search" /\ req[r].pc = "search"
                /\ req'[r].pc = "unfiltered")
                => req'[r].results = FilteredHits(r)
          /\ (req[r].endpoint = "search" /\ req[r].pc = "unfiltered"
                /\ req'[r].pc = "done")
                => /\ req'[r].resp = Ok("", "")
                   /\ req'[r].results = req[r].results
                   /\ req'[r].unfiltered =
                        EsSearch(req[r].query, req[r].userEmail, req[r].filter, FALSE)]_vars

\* C25: a search whose cache is empty when it starts awaits a load before its
\* visibility clauses are chosen: the load ends, with a populated cache, before
\* the handler resumes and chooses the clauses from the cache; a search whose
\* cache is populated issues no schema query.
C25_LoadAwaitedBeforeClauses ==
    [][\A r \in Slots :
          /\ (Free(r) /\ req'[r].endpoint = "search" /\ req'[r].pc \notin {"idle", "done"})
                => IF mappingSummaryCache = EmptyObj
                   THEN req'[r].pc = "load" /\ req'[r].filter = EmptyObj
                   ELSE /\ req'[r].pc = "search"
                        /\ req'[r].calls = {}
                        /\ req'[r].filter = userFilters(mappingSummaryCache)
                        /\ mappingSummaryCache' = mappingSummaryCache
          /\ (req[r].endpoint = "search" /\ req[r].pc = "load" /\ req'[r] # req[r])
                => /\ req'[r].pc = "resume"
                   /\ "getMapping" \in req'[r].calls
                   /\ mappingSummaryCache' # EmptyObj
                   /\ req'[r].filter = EmptyObj
          /\ (req[r].endpoint = "search" /\ req[r].pc = "resume" /\ req'[r] # req[r])
                => /\ req'[r].pc = "search"
                   /\ "getMapping" \in req[r].calls
                   /\ mappingSummaryCache # EmptyObj
                   /\ req'[r].filter = userFilters(mappingSummaryCache)]_vars

\* a search that started on an empty cache has awaited its load and built term
\* clauses from the summary it loaded
C25_ClausesAfterLazyLoad ==
    \E r \in Slots :
        /\ req[r].endpoint = "search" /\ req[r].pc = "search"
        /\ req[r].calls = {"getMapping"}
        /\ req[r].filter = [tasks |-> "term", organizations |-> "term"]

(***************************************************************************)
(* Further properties of the organization webhook (SpecOrg).               *)
(***************************************************************************)
\* C24: a request whose event descriptor contains 'delete' issues no index write
\* (and no fetch for a merge), whatever its payload carries as parent reference.
C24_DeleteEventNeverWrites ==
    \A r \in Slots :
        (req[r].endpoint \in {"task", "organization", "index"} /\ IncludesDelete(req[r].event)) =>
            /\ req[r].calls \subseteq {"delete"}
            /\ req[r].pc \notin {"get", "index", "refresh"}

\* the $id values of the entries of arr are pairwise distinct
DistinctIds(arr) ==
    \A i, j \in 1..Len(arr) :
        (i # j /\ ~IsString(arr[i]) /\ ~IsString(arr[j])) => Get(arr[i], "$id") # Get(arr[j], "$id")

\* C27: with requests handled one at a time, no stored aggregate has two members
\* with the same $id or two teams with the same $id.
C27_ChildIdsStayDistinct ==
    \A id \in DOMAIN orgsIdx :
        DistinctIds(orgsIdx[id]["members"]) /\ DistinctIds(orgsIdx[id]["teams"])

\* merges have replaced the member m1 in place and appended a member and a team
\* to the aggregate o1
C27_MergedInPlaceAndAppended ==
    /\ "o1" \in DOMAIN orgsIdx
    /\ Len(orgsIdx["o1"]["members"]) = 3
    /\ Len(orgsIdx["o1"]["teams"]) = 2
    /\ Get(orgsIdx["o1"]["members"][1], "role") = "admin"

(***************************************************************************)
(* Properties of the write paths (SpecWrite).                              *)
(***************************************************************************)
\* C22: on the task upsert, the full organization upsert and the child merge, a
\* successful index write is followed by a refresh request before any answer,
\* and the refresh, failed or not, leaves the stored documents as they are and
\* is answered ok with the action of the write.
C22_RefreshAfterWriteIsBestEffort ==
    [][\A r \in Slots :
          /\ (req[r].endpoint \in {"task", "organization"} /\ req[r].pc = "index"
                /\ req'[r] # req[r])
                => \/ req'[r].pc = "refresh" /\ req'[r].resp = NoResp
                   \/ /\ req'[r].pc = "done" /\ req'[r].resp = Err(500, "index_failed")
                      /\ tasksIdx' = tasksIdx /\ orgsIdx' = orgsIdx
          /\ (\E ok \in Outcomes : TaskRefresh(r, ok) \/ OrgRefresh(r, ok))
                => /\ req'[r].pc = "done"
                   /\ "refresh" \in req'[r].calls
                   /\ req'[r].resp = Ok(req[r].action, req[r].id)
                   /\ tasksIdx' = tasksIdx /\ orgsIdx' = orgsIdx
          /\ (TaskRefresh(r, TRUE) => tasksSeen' = tasksIdx)
          /\ (OrgRefresh(r, TRUE) => orgsSeen' = orgsIdx)
          /\ (req'[r].pc = "done" /\ req[r].pc # "done" /\ req'[r].resp.ok
                /\ req'[r].resp.action \in {"upserted", "merged_into_organization"})
                => req[r].pc = "refresh"]_vars

\* a merge was answered merged_into_organization although its refresh failed:
\* the aggregate is stored and not yet searchable
C22_AnsweredAfterFailedRefresh ==
    \E r \in Slots :
        /\ req[r].endpoint = "organization" /\ req[r].pc = "done"
        /\ req[r].resp = Ok("merged_into_organization", "o1")
        /\ req[r].calls = {"get", "index", "refresh"}
        /\ orgsIdx["o1"] = Written(r)
        /\ "o1" \notin DOMAIN orgsSeen

(***************************************************************************)
(* Properties of the delete branches (SpecDelete).                         *)
(***************************************************************************)
\* the documents of every index
Stored == <<tasksIdx, orgsIdx, extraIdx>>

\* C23: a request in a delete branch is never answered with an error: it is
\* answered ok, action deleted, with its id, on /api/index once its four deletes
\* have settled; when a delete call fails, or no document is stored under the
\* id, every stored document stays as it is; after a delete that succeeds the
\* id is absent from that index and the other documents are as before, so the
\* same event delivered again changes nothing.
C23_DeleteIsSwallowedAndIdempotent ==
    [][\A r \in Slots :
          /\ (req[r].pc = "delete" /\ req'[r] # req[r])
                => \/ /\ req'[r].pc = "done"
                      /\ req'[r].resp = Ok("deleted", req[r].id)
                      /\ req[r].pending = {}
                   \/ /\ req[r].endpoint = "index"
                      /\ req'[r].pc = "delete" /\ req'[r].resp = NoResp
                      /\ \E idx \in req[r].pending : req'[r].pending = req[r].pending \ {idx}
          /\ \A ok \in Outcomes :
                /\ TaskDelete(r, ok)
                      => /\ (~ok \/ req[r].id \notin DOMAIN tasksIdx) => Stored' = Stored
                         /\ ok => req[r].id \notin DOMAIN tasksIdx'
                /\ OrgDelete(r, ok)
                      => /\ (~ok \/ req[r].id \notin DOMAIN orgsIdx) => Stored' = Stored
                         /\ ok => req[r].id \notin DOMAIN orgsIdx'
                /\ \A idx \in {"tasks", "organizations", "teams", "orgmembers"} :
                      IndexDelete(r, idx, ok)
                         => LET all == extraIdx @@ [tasks |-> tasksIdx, organizations |-> orgsIdx]
                                all2 == extraIdx' @@
                                           [tasks |-> tasksIdx', organizations |-> orgsIdx']
                            IN  /\ (~ok \/ req[r].id \notin DOMAIN all[idx]) => Stored' = Stored
                                /\ ok => req[r].id \notin DOMAIN all2[idx]
                                /\ \A i \in DOMAIN all \ {idx} : all2[i] = all[i]
                                /\ \A k \in DOMAIN all[idx] \ {req[r].id} :
                                      k \in DOMAIN all2[idx] /\ all2[idx][k] = all[idx][k]
          /\ IndexDeleted(r) => Stored' = Stored]_vars

\* a delete through /api/index answered deleted although the delete call on the
\* tasks index failed: the task is still stored
C23_AnsweredDeletedStillStored ==
    \E r \in Slots :
        /\ req[r].endpoint = "index" /\ req[r].pc = "done"
        /\ req[r].resp = Ok("deleted", "t1")
        /\ "delete" \in req[r].calls
        /\ "t1" \in DOMAIN tasksIdx

(***************************************************************************)
(* Properties of concurrent lazy loads (SpecLoadRace).                     *)
(***************************************************************************)
\* the summaries a load can assign: that of the schema, or the all-false one of
\* a failed schema query
LoadedSummaries == {SummaryOf(schema), SummaryOf(EmptyObj)}

\* C26: every load that finishes, the lazy load of a search or a load outside
\* any search (startup, GET /api/mappings), assigns the cache the summary of its
\* own schema query whatever another load left there, so the cache holds the
\* summary of the load that assigned last; the cache changes on no other step
\* and a load changes no stored document; a search that resumes chooses its
\* clauses from the cache as it is then.  The task and organization handlers
\* neither write nor read the cache: each of their steps leaves it as it is, the
\* body they prepare is the projection of the payload, and what they write or
\* delete is given by the request and the stored documents alone.
C26_LastLoadWinsWritesIgnoreCache ==
    [][/\ \A r \in Slots, ok \in Outcomes :
             SearchLoad(r, ok)
                => /\ mappingSummaryCache' = loadMappingSummary(ok)
                   /\ req'[r].loaded = <<mappingSummaryCache'>>
                   /\ "getMapping" \in req'[r].calls
       /\ \A r \in Slots :
             (req[r].endpoint = "search" /\ req[r].pc = "load" /\ req'[r] # req[r])
                => /\ req'[r].pc = "resume"
                   /\ req'[r].loaded = <<mappingSummaryCache'>>
                   /\ mappingSummaryCache' \in LoadedSummaries
       /\ \A r \in Slots :
             (req[r].endpoint = "search" /\ req[r].pc = "resume" /\ req'[r] # req[r])
                => /\ req'[r].filter = userFilters(mappingSummaryCache)
                   /\ mappingSummaryCache' = mappingSummaryCache
       /\ mappingSummaryCache' # mappingSummaryCache
             => /\ mappingSummaryCache' \in LoadedSummaries
                /\ Stored' = Stored /\ tasksSeen' = tasksSeen /\ orgsSeen' = orgsSeen
                /\ \/ req' = req
                   \/ \E r \in Slots :
                         /\ req[r].endpoint = "search" /\ req[r].pc = "load"
                         /\ req'[r].pc = "resume"
                         /\ \A q \in Slots \ {r} : req'[q] = req[q]
       /\ \A r \in Slots :
             (req'[r] # req[r] /\ req'[r].endpoint \in {"task", "organization"})
                => LET cur == req[r]
                       id == cur.id
                   IN  /\ mappingSummaryCache' = mappingSummaryCache
                       /\ extraIdx' = extraIdx
                       /\ Free(r)
                             => /\ Stored' = Stored
                                /\ req'[r].pc = "index"
                                      => req'[r].body =
                                            IF req'[r].endpoint = "task"
                                            THEN TaskBody(req'[r].doc)
                                            ELSE OrgBody(req'[r].doc)
                       /\ (cur.endpoint = "task" /\ cur.pc = "delete")
                             => /\ tasksIdx' \in {tasksIdx, EsDelete(tasksIdx, id)}
                                /\ orgsIdx' = orgsIdx
                       /\ (cur.endpoint = "task" /\ cur.pc = "index")
                             => /\ tasksIdx' \in
                                      {tasksIdx,
                                       EsIndex(tasksIdx, id, JsonFlat(TaskBody(cur.doc)))}
                                /\ orgsIdx' = orgsIdx
                       /\ (cur.endpoint = "organization" /\ cur.pc = "delete")
                             => /\ orgsIdx' \in {orgsIdx, EsDelete(orgsIdx, id)}
                                /\ tasksIdx' = tasksIdx
                       /\ (cur.endpoint = "organization" /\ cur.pc = "index")
                             => /\ orgsIdx' \in
                                      {orgsIdx,
                                       EsIndex(orgsIdx, id, JsonOrg(OrgBody(cur.doc)))}
                                /\ tasksIdx' = tasksIdx
                       /\ cur.pc = "refresh" => Stored' = Stored]_vars

\* two searches have both queried the schema: the load of the first succeeded,
\* the load of the second failed and assigned last, and the cache holds the
\* summary of the second
C26_BothLoadedLastAssigned ==
    /\ \A r \in Slots : req[r].endpoint = "search" /\ req[r].pc = "resume"
                         /\ "getMapping" \in req[r].calls
    /\ req["r1"].loaded = <<SummaryOf(schema)>>
    /\ req["r2"].loaded = <<SummaryOf(EmptyObj)>>
    /\ req["r1"].loaded # req["r2"].loaded
    /\ mappingSummaryCache = SummaryOf(EmptyObj)

====
